---- MODULE Spec2Model ----
(***************************************************************************)
(* Model of tools/ast_syntax_checker/main.py: the RON notation parser, the *)
(* AST validator, the display-hints generator and the folder menu that     *)
(* sequences them.                                                         *)
(*                                                                         *)
(* Python values are tagged records:                                       *)
(*   str  [k |-> "str",  s |-> "..."]      int  [k |-> "int",  n |-> 1]    *)
(*   bool [k |-> "bool", b |-> TRUE]       None [k |-> "none"]             *)
(*   list [k |-> "list", e |-> <<v, ...>>]                                 *)
(*   float [k |-> "float", mant |-> 15, exp |-> 1]   (1.5 = 15 / 10^1)      *)
(*   dict [k |-> "dict", m |-> <<[key |-> "..", val |-> v], ...>>]         *)
(* A dict keeps its entries in insertion order, as Python's does.          *)
(* A Python exception is the field exc of a result record ("" = none).     *)
(***************************************************************************)
EXTENDS Integers, Sequences, FiniteSets, TLC

VARIABLES
  syntax,        \* the parsed syntax document handed to both constructors
  ast,           \* the parsed AST document handed to both constructors
  syntax_nodes,  \* ASTValidator.syntax_nodes
  errors,        \* ASTValidator.errors
  returned,      \* what the last call of validate returned (or raised)
  gen_nodes,     \* DisplayHintsGenerator.syntax_nodes
  hints,         \* what the last call of generate returned
  construction,  \* the exception each constructor raised ("" = none)
  validations,   \* the calls of validate so far: how many, what the first returned
  ron_text,      \* the text handed to the parser
  parse_result,  \* what _parse_ron_content returned (or raised) for it
  serialized,    \* the Value handed to _format_as_ron last, and its text
  scan,          \* a loop of the parser under way: its text, read index, what it read
  syntax_file,   \* <folder>/syntax.ron
  ast_file,      \* <folder>/ast.ron
  hints_file,    \* <folder>/display_hints.ron exists
  pc,            \* where the menu loop stands
  menu,          \* the menu show_folder_actions printed last
  validation_errors,  \* validation_errors of show_folder_actions
  auto_validated,     \* its auto-validation called validator.validate()
  call           \* what the last call of generate_display_hints did

core_vars == <<syntax, ast, syntax_nodes, errors, returned, gen_nodes, hints,
              construction, validations>>
parse_vars == <<ron_text, parse_result, serialized, scan>>
menu_vars == <<syntax_file, ast_file, hints_file, pc, menu, validation_errors,
               auto_validated, call>>
vars == <<core_vars, parse_vars, menu_vars>>

----------------------------------------------------------------------------
(* Python strings                                                          *)

UpperCase == <<"A","B","C","D","E","F","G","H","I","J","K","L","M",
               "N","O","P","Q","R","S","T","U","V","W","X","Y","Z">>
LowerCase == <<"a","b","c","d","e","f","g","h","i","j","k","l","m",
               "n","o","p","q","r","s","t","u","v","w","x","y","z">>
Digits == <<"0","1","2","3","4","5","6","7","8","9">>

IndexIn(c, table) == IF \E i \in 1..Len(table) : table[i] = c
                     THEN CHOOSE i \in 1..Len(table) : table[i] = c
                     ELSE 0

\* str.lower() of one character
LowerChar(c) == IF IndexIn(c, UpperCase) > 0 THEN LowerCase[IndexIn(c, UpperCase)] ELSE c

\* str.lower()
RECURSIVE Lower(_)
Lower(s) == IF s = "" THEN "" ELSE LowerChar(Head(s)) \o Lower(Tail(s))

\* str.isdigit(): non-empty and every character a digit
RECURSIVE AllDigits(_)
AllDigits(s) == IF s = "" THEN TRUE ELSE IndexIn(Head(s), Digits) > 0 /\ AllDigits(Tail(s))
IsDigit(s) == s # "" /\ AllDigits(s)

\* int(s) for a string of digits
RECURSIVE IntOfDigits(_, _)
IntOfDigits(s, acc) == IF s = "" THEN acc
                       ELSE IntOfDigits(Tail(s), 10 * acc + (IndexIn(Head(s), Digits) - 1))
IntOf(s) == IntOfDigits(s, 0)

----------------------------------------------------------------------------
(* Python values                                                           *)

StrV(s)  == [k |-> "str", s |-> s]
IntV(n)  == [k |-> "int", n |-> n]
BoolV(b) == [k |-> "bool", b |-> b]
NoneV   == [k |-> "none"]
FloatV(mant, exp) == [k |-> "float", mant |-> mant, exp |-> exp]
ListV(e) == [k |-> "list", e |-> e]
DictV(m) == [k |-> "dict", m |-> m]
KV(key, val) == [key |-> key, val |-> val]

IsStr(v)  == v.k = "str"
IsDict(v) == v.k = "dict"
IsList(v) == v.k = "list"

\* key in d, d[key], d.get(key) for a dict d and a string key
HasKey(d, key) == \E i \in 1..Len(d.m) : d.m[i].key = key
Get(d, key) == IF HasKey(d, key)
               THEN d.m[CHOOSE i \in 1..Len(d.m) : d.m[i].key = key].val
               ELSE NoneV

\* d[key] = val: an existing key keeps its place, a new one goes last
DictSet(d, key, val) ==
  IF HasKey(d, key)
  THEN DictV([i \in 1..Len(d.m) |-> IF d.m[i].key = key THEN KV(key, val) ELSE d.m[i]])
  ELSE DictV(Append(d.m, KV(key, val)))

\* a == b: bool is a subclass of int (True == 1, False == 0), and a float
\* equals the int of the same value
NumOf(v) == IF v.k = "int" THEN v.n ELSE IF v.b THEN 1 ELSE 0
IsNum(v) == v.k \in {"int", "bool"}
IsFloat(v) == v.k = "float"
PyEq(a, b) == IF IsNum(a) /\ IsNum(b) THEN NumOf(a) = NumOf(b)
              ELSE IF IsFloat(a) /\ IsNum(b) THEN a.exp = 0 /\ a.mant = NumOf(b)
              ELSE IF IsNum(a) /\ IsFloat(b) THEN b.exp = 0 /\ b.mant = NumOf(a)
              ELSE a = b

\* hash(v) succeeds: lists and dicts are unhashable
Hashable(v) == v.k \notin {"list", "dict"}

\* bool(v)
Truthy(v) == CASE v.k = "str"  -> v.s # ""
               [] v.k = "int"  -> v.n # 0
               [] v.k = "bool" -> v.b
               [] v.k = "none" -> FALSE
               [] v.k = "float" -> v.mant # 0
               [] v.k = "list" -> Len(v.e) > 0
               [] v.k = "dict" -> Len(v.m) > 0

\* results of operations that may raise: a list of diagnostics so far, or a value
Ok(errs)       == [errs |-> errs, exc |-> ""]
Raise(errs, e) == [errs |-> errs, exc |-> e]
Val(v)         == [val |-> v, exc |-> ""]
Exc(e)         == [val |-> NoneV, exc |-> e]

\* an f-string message: its literal text and the values formatted into it
Diag(text, args) == [text |-> text, args |-> args]

----------------------------------------------------------------------------
(* Python strings by position (0-based, as the parser indexes them)        *)

Min(a, b) == IF a < b THEN a ELSE b

\* s[i] for 0 <= i < len(s)
Ch(s, i) == SubSeq(s, i + 1, i + 1)
\* s[a:b] and s[a:] for 0 <= a: an end past the text or before a is no error
Slice(s, a, b) == SubSeq(s, a + 1, Min(b, Len(s)))
SliceFrom(s, a) == SubSeq(s, a + 1, Len(s))

Whitespace == {" ", "\t", "\n"}
DigitChars == {Digits[i] : i \in 1..Len(Digits)}
IsUpper(c) == IndexIn(c, UpperCase) > 0

\* s.lstrip(chars), s.rstrip(chars), s.strip(), s.strip('"')
RECURSIVE LStrip(_, _)
LStrip(s, chars) == IF s # "" /\ Head(s) \in chars THEN LStrip(Tail(s), chars) ELSE s
RECURSIVE RStrip(_, _)
RStrip(s, chars) == IF s # "" /\ Ch(s, Len(s) - 1) \in chars
                    THEN RStrip(Slice(s, 0, Len(s) - 1), chars) ELSE s
Strip(s) == RStrip(LStrip(s, Whitespace), Whitespace)
StripQuotes(s) == RStrip(LStrip(s, {"\""}), {"\""})

\* s.find(c) and s.rfind(c) for one character: -1 when it does not occur
Find(s, c) == IF \E i \in 0..(Len(s) - 1) : Ch(s, i) = c
              THEN CHOOSE i \in 0..(Len(s) - 1) :
                     Ch(s, i) = c /\ \A j \in 0..(i - 1) : Ch(s, j) # c
              ELSE -1
RFind(s, c) == IF \E i \in 0..(Len(s) - 1) : Ch(s, i) = c
               THEN CHOOSE i \in 0..(Len(s) - 1) :
                      Ch(s, i) = c /\ \A j \in (i + 1)..(Len(s) - 1) : Ch(s, j) # c
               ELSE -1
\* sub in s, s.startswith(prefix)
Contains(s, sub) == \E i \in 0..(Len(s) - Len(sub)) : Slice(s, i, i + Len(sub)) = sub
StartsWith(s, prefix) == Slice(s, 0, Len(prefix)) = prefix

\* s.split(sep) for one character, and sep.join(parts)
RECURSIVE Split(_, _)
Split(s, sep) == IF Find(s, sep) = -1 THEN <<s>>
                 ELSE <<Slice(s, 0, Find(s, sep))>> \o Split(SliceFrom(s, Find(s, sep) + 1), sep)
RECURSIVE Join(_, _)
Join(parts, sep) == IF Len(parts) = 0 THEN ""
                    ELSE IF Len(parts) = 1 THEN parts[1]
                    ELSE parts[1] \o sep \o Join(Tail(parts), sep)

\* float(s) succeeds, for s made of digits, '.' and '-' (all the number scan
\* lets through): an optional leading '-', then digits with at most one '.'
UnsignedFloatOk(s) ==
  LET parts == Split(s, ".")
  IN /\ Len(parts) <= 2
     /\ \A i \in 1..Len(parts) : AllDigits(parts[i])
     /\ \E i \in 1..Len(parts) : parts[i] # ""
FloatOk(s) == UnsignedFloatOk(IF StartsWith(s, "-") THEN SliceFrom(s, 1) ELSE s)

\* float(s): mant / 10^exp with no trailing zero in the fraction
RECURSIVE Normal(_, _)
Normal(mant, exp) == IF exp > 0 /\ mant % 10 = 0 THEN Normal(mant \div 10, exp - 1)
                     ELSE FloatV(mant, exp)
FloatOf(s) ==
  LET neg == StartsWith(s, "-")
      parts == Split(IF neg THEN SliceFrom(s, 1) ELSE s, ".")
      frac == IF Len(parts) = 2 THEN parts[2] ELSE ""
      n == Normal(IntOf(parts[1] \o frac), Len(frac))
  IN IF neg THEN FloatV(0 - n.mant, n.exp) ELSE n

----------------------------------------------------------------------------
(* The RON parser of ASTSyntaxChecker                                      *)

\* while i < len(content) and content[i] in chars: i += 1
RECURSIVE SkipWhile(_, _, _)
SkipWhile(content, i, chars) ==
  IF i < Len(content) /\ Ch(content, i) \in chars THEN SkipWhile(content, i + 1, chars) ELSE i

\* while i < len(content) and content[i] not in chars: i += 1
RECURSIVE SkipUntil(_, _, _)
SkipUntil(content, i, chars) ==
  IF i < Len(content) /\ Ch(content, i) \notin chars THEN SkipUntil(content, i + 1, chars) ELSE i

\* (variant: a comma ends the string too)
RECURSIVE ScanString_to_comma(_, _)
ScanString_to_comma(content, i) ==
  IF i < Len(content) /\ Ch(content, i) \notin {"\"", ","}
  THEN ScanString_to_comma(content, IF Ch(content, i) = "\\" THEN i + 2 ELSE i + 1)
  ELSE i

\* the scan of a quoted string: to the closing quote or past the end of the
\* text, a backslash skipping the character after it
RECURSIVE ScanString(_, _)
ScanString(content, i) ==
  IF i < Len(content) /\ Ch(content, i) # "\""
  THEN ScanString(content, IF Ch(content, i) = "\\" THEN i + 2 ELSE i + 1)
  ELSE i

\* the scan of Some( ... ): one past the matching ')' or the end of the text
RECURSIVE ScanParens(_, _, _)
ScanParens(content, i, paren_count) ==
  IF i < Len(content) /\ paren_count > 0
  THEN ScanParens(content, i + 1,
                  IF Ch(content, i) = "(" THEN paren_count + 1
                  ELSE IF Ch(content, i) = ")" THEN paren_count - 1
                  ELSE paren_count)
  ELSE i

\* the scan of a number: digits, '.' and '-'
ScanNumber(content, i) == SkipWhile(content, i, DigitChars \cup {".", "-"})

\* the scan of any other value: to a comma outside braces or the end
RECURSIVE ScanValue(_, _, _)
ScanValue(content, i, brace_count) ==
  IF i >= Len(content) THEN i
  ELSE IF Ch(content, i) = "{" THEN ScanValue(content, i + 1, brace_count + 1)
  ELSE IF Ch(content, i) = "}" THEN ScanValue(content, i + 1, brace_count - 1)
  ELSE IF Ch(content, i) = "," /\ brace_count = 0 THEN i
  ELSE ScanValue(content, i + 1, brace_count)

\* the scan of a nested node: one past the matching '}' or the end
RECURSIVE ScanBraces(_, _, _)
ScanBraces(content, i, brace_count) ==
  IF i < Len(content) /\ brace_count > 0
  THEN ScanBraces(content, i + 1,
                  IF Ch(content, i) = "{" THEN brace_count + 1
                  ELSE IF Ch(content, i) = "}" THEN brace_count - 1
                  ELSE brace_count)
  ELSE i

\* what Some(value_content) holds
SomeValue(value_content) ==
  IF IsDigit(value_content) THEN IntV(IntOf(value_content))
  ELSE IF value_content \in {"true", "false"} THEN BoolV(value_content = "true")
  ELSE StrV(StripQuotes(value_content))

\* the state of the mapping loop after one value
Step(i, result) == [i |-> i, result |-> result, exc |-> ""]

RECURSIVE StructureLoop(_, _, _), ParseValue(_, _, _, _), ArrayLoop(_, _, _)

\* result[key] = array_content; i = new_i
StoreArray(result, key, a) ==
  IF a.exc # "" THEN [i |-> a.i, result |-> result, exc |-> a.exc]
  ELSE Step(a.i, DictSet(result, key, a.val))

\* the state of a loop after one pass: the read index, what was read so far,
\* the exception the pass raised, and whether it left the loop by break
Pass(i, read, exc, brk) == [i |-> i, read |-> read, exc |-> exc, brk |-> brk]

\* except Exception: return {}
OrEmpty(parsed) == IF parsed.exc # "" THEN DictV(<<>>) ELSE parsed.val

\* _parse_ron_array: the list and the index after it
_parse_ron_array(content, start_index) ==
  ArrayLoop(content, SkipWhile(content, start_index + 1, Whitespace), <<>>)

\* _parse_ron_structure: the mapping, or the ValueError of float()
_parse_ron_structure(content) == StructureLoop(content, 0, DictV(<<>>))

\* the value at content[i] of the pair named key
ParseValue(content, i, key, result) ==
  IF Ch(content, i) = "\""
  THEN LET j == ScanString(content, i + 1)
       IN Step(j + 1, DictSet(result, key, StrV(Slice(content, i + 1, j))))
  ELSE IF Ch(content, i) = "["
  THEN StoreArray(result, key, _parse_ron_array(content, i))
  ELSE IF Slice(content, i, i + 4) = "Some"
  THEN IF i + 4 < Len(content) /\ Ch(content, i + 4) = "("
       THEN LET j == ScanParens(content, i + 5, 1)
            IN Step(j, DictSet(result, key, SomeValue(Slice(content, i + 5, j - 1))))
       ELSE Step(i + 4, result)
  ELSE IF Ch(content, i) \in DigitChars \cup {"-"}
  THEN LET j == ScanNumber(content, i)
           value == Slice(content, i, j)
       IN IF IsDigit(value) THEN Step(j, DictSet(result, key, IntV(IntOf(value))))
          ELSE IF FloatOk(value) THEN Step(j, DictSet(result, key, FloatOf(value)))
          ELSE [i |-> j, result |-> result, exc |-> "ValueError"]
  ELSE IF Slice(content, i, i + 4) = "true"
  THEN Step(i + 4, DictSet(result, key, BoolV(TRUE)))
  ELSE IF Slice(content, i, i + 5) = "false"
  THEN Step(i + 5, DictSet(result, key, BoolV(FALSE)))
  ELSE LET j == ScanValue(content, i, 0)
           value == Strip(Slice(content, i, j))
       IN Step(j, IF value # "" THEN DictSet(result, key, StrV(value)) ELSE result)

\* the pass that read the value s
ValueRead(s) == Pass(s.i, s.result, s.exc, FALSE)

\* one pass of the mapping loop: skip separators, read the key up to ':',
\* read the value
MappingPass(content, i, result) ==
  LET key_start == SkipWhile(content, i, Whitespace \cup {","})
      colon == SkipUntil(content, key_start, {":"})
      key == Strip(Slice(content, key_start, colon))
      value_at == SkipWhile(content, colon + 1, Whitespace)
  IN IF key_start >= Len(content) THEN Pass(key_start, result, "", TRUE)
     ELSE IF colon >= Len(content) THEN Pass(colon, result, "", TRUE)
     ELSE IF value_at >= Len(content) THEN Pass(value_at, result, "", FALSE)
     ELSE ValueRead(ParseValue(content, value_at, key, result))

\* after the pass s the mapping loop goes on, unless the pass raised or broke
AfterMappingPass(content, s) ==
  IF s.exc # "" THEN Exc(s.exc)
  ELSE IF s.brk THEN Val(s.read)
  ELSE StructureLoop(content, s.i, s.read)

\* while i < len(content): one pass after the other
StructureLoop(content, i, result) ==
  IF i >= Len(content) THEN Val(result)
  ELSE AfterMappingPass(content, MappingPass(content, i, result))

\* array_content.append(parsed_node): the pass that read a node up to node_end
NodeRead(node_end, array_content, parsed_node) ==
  IF parsed_node.exc # ""
  THEN Pass(node_end, array_content, parsed_node.exc, FALSE)
  ELSE Pass(node_end, Append(array_content, parsed_node.val), "", FALSE)

\* one pass of the sequence loop: one separator, one node or one plain value
SequencePass(content, i, array_content) ==
  IF Ch(content, i) \in Whitespace \cup {","}
  THEN Pass(i + 1, array_content, "", FALSE)
  ELSE IF IsUpper(Ch(content, i))
  THEN LET name_end == SkipUntil(content, i, Whitespace \cup {"{"})
           brace == SkipWhile(content, name_end, Whitespace)
       IN IF brace < Len(content) /\ Ch(content, brace) = "{"
          THEN LET node_end == ScanBraces(content, brace + 1, 1)
               IN NodeRead(node_end, array_content,
                           _parse_ron_structure(Slice(content, brace + 1, node_end - 1)))
          ELSE Pass(brace, array_content, "", FALSE)
  ELSE LET value_end == SkipUntil(content, i, {",", "]"})
           value == StripQuotes(Strip(Slice(content, i, value_end)))
       IN Pass(value_end,
               IF value # "" THEN Append(array_content, StrV(value)) ELSE array_content,
               "", FALSE)

\* after the pass s the sequence loop goes on, unless the pass raised
AfterSequencePass(content, s) ==
  IF s.exc # "" THEN [val |-> ListV(s.read), i |-> s.i, exc |-> s.exc]
  ELSE ArrayLoop(content, s.i, s.read)

\* while i < len(content) and content[i] != ']': one pass after the other
ArrayLoop(content, i, array_content) ==
  IF i < Len(content) /\ Ch(content, i) # "]"
  THEN AfterSequencePass(content, SequencePass(content, i, array_content))
  ELSE [val |-> ListV(array_content),
        i |-> IF i < Len(content) /\ Ch(content, i) = "]" THEN i + 1 ELSE i,
        exc |-> ""]

\* _parse_ron_object: the mapping between the first '{' and the last '}';
\* any exception below it gives the empty mapping
_parse_ron_object(content) ==
  IF Find(content, "{") = -1 \/ RFind(content, "}") = -1 THEN DictV(<<>>)
  ELSE LET inner_content ==
             Strip(Slice(content, Find(content, "{") + 1, RFind(content, "}")))
       IN OrEmpty(_parse_ron_structure(inner_content))

\* for prop in content.split(','): properties[key] = value, every value a string
RECURSIVE Properties(_, _, _)
Properties(props, i, properties) ==
  IF i > Len(props) THEN properties
  ELSE LET prop == Strip(props[i])
           colon == Find(prop, ":")
       IN Properties(props, i + 1,
                     IF colon = -1 THEN properties
                     ELSE DictSet(properties, Strip(Slice(prop, 0, colon)),
                                  StrV(StripQuotes(Strip(SliceFrom(prop, colon + 1))))))

\* _parse_syntax_node: {node_name: properties} for "Name { key: value, ... }"
_parse_syntax_node(node_line) ==
  IF Find(node_line, "{") = -1 THEN DictV(<<>>)
  ELSE LET name_end == Find(node_line, "{")
           node_name == Strip(Slice(node_line, 0, name_end))
           rest == SliceFrom(node_line, name_end + 1)
           content == IF RFind(rest, "}") # -1 THEN Slice(rest, 0, RFind(rest, "}")) ELSE rest
       IN DictV(<<KV(node_name, Properties(Split(content, ","), 1, DictV(<<>>)))>>)

\* result.update(node_data) for the one entry of node_data, when it has one
Update(result, node_data) ==
  IF Truthy(node_data) THEN DictSet(result, node_data.m[1].key, node_data.m[1].val)
  ELSE result

\* the syntax.ron format: a line holding '{' starts a node definition, the
\* lines after it are joined to it
RECURSIVE SyntaxLines(_, _, _, _)
SyntaxLines(lines, i, current_node, result) ==
  IF i > Len(lines)
  THEN IF current_node # "" THEN Update(result, _parse_syntax_node(current_node)) ELSE result
  ELSE LET line == Strip(lines[i])
       IN IF line # "" /\ Contains(line, "{")
          THEN SyntaxLines(lines, i + 1, line,
                           IF current_node # ""
                           THEN Update(result, _parse_syntax_node(current_node))
                           ELSE result)
          ELSE IF line # "" /\ current_node # ""
          THEN SyntaxLines(lines, i + 1, current_node \o " " \o line, result)
          ELSE SyntaxLines(lines, i + 1, current_node, result)

\* a line is kept unless it is blank or its first non-blank character is '#'
KeptLine(line) == Strip(line) # "" /\ ~StartsWith(Strip(line), "#")

\* _parse_ron_content: always a mapping.  No call below it lets an
\* exception through, so the handler at its end has nothing to catch.
_parse_ron_content(text) ==
  LET content == Strip(Join(SelectSeq(Split(text, "\n"), KeptLine), "\n"))
  IN IF content = "" THEN Val(DictV(<<>>))
     ELSE IF StartsWith(content, "RootNode") \/ StartsWith(content, "Document")
     THEN Val(_parse_ron_object(content))
     ELSE IF Contains(content, "{") /\ Contains(content, "node_type")
     THEN Val(SyntaxLines(Split(content, "\n"), 1, "", DictV(<<>>)))
     ELSE Val(DictV(<<KV("raw_content", StrV(content))>>))

----------------------------------------------------------------------------
(* The serializer of ASTSyntaxChecker                                      *)

\* str(n) for an integer
RECURSIVE DigitsOf(_)
DigitsOf(n) == IF n < 10 THEN Digits[n + 1] ELSE DigitsOf(n \div 10) \o Digits[(n % 10) + 1]
IntStr(n) == IF n < 0 THEN "-" \o DigitsOf(0 - n) ELSE DigitsOf(n)

\* repr(x) for a float mant / 10^exp of a few digits: the decimal itself
RECURSIVE ZeroPad(_, _)
ZeroPad(s, n) == IF Len(s) >= n THEN s ELSE ZeroPad("0" \o s, n)
FloatRepr(v) ==
  LET abs == IF v.mant < 0 THEN 0 - v.mant ELSE v.mant
      ds == ZeroPad(DigitsOf(abs), v.exp + 1)
      whole == Slice(ds, 0, Len(ds) - v.exp)
      frac == IF v.exp = 0 THEN "0" ELSE SliceFrom(ds, Len(ds) - v.exp)
  IN (IF v.mant < 0 THEN "-" ELSE "") \o whole \o "." \o frac

\* repr(s) for a string of printable characters, newlines and tabs
ReprChar(c, quote) ==
  CASE c = "\\" -> "\\\\"
    [] c = quote -> "\\" \o quote
    [] c = "\n" -> "\\n"
    [] c = "\t" -> "\\t"
    [] OTHER -> c
RECURSIVE ReprChars(_, _)
ReprChars(s, quote) == IF s = "" THEN "" ELSE ReprChar(Head(s), quote) \o ReprChars(Tail(s), quote)
StrRepr(s) ==
  LET quote == IF Contains(s, "'") /\ ~Contains(s, "\"") THEN "\"" ELSE "'"
  IN quote \o ReprChars(s, quote) \o quote

\* str(v) and repr(v)
RECURSIVE PyStr(_), PyRepr(_)
PyStr(v) ==
  CASE IsStr(v) -> v.s
    [] v.k = "int" -> IntStr(v.n)
    [] v.k = "bool" -> IF v.b THEN "True" ELSE "False"
    [] v.k = "float" -> FloatRepr(v)
    [] v.k = "none" -> "None"
    [] IsList(v) -> "[" \o Join([i \in 1..Len(v.e) |-> PyRepr(v.e[i])], ", ") \o "]"
    [] IsDict(v) -> "{" \o Join([i \in 1..Len(v.m) |->
                                   StrRepr(v.m[i].key) \o ": " \o PyRepr(v.m[i].val)], ", ")
                        \o "}"
PyRepr(v) == IF IsStr(v) THEN StrRepr(v.s) ELSE PyStr(v)

\* "    " * indent
RECURSIVE IndentStr(_)
IndentStr(indent) == IF indent = 0 THEN "" ELSE "    " \o IndentStr(indent - 1)

\* isinstance(sub_value, (str, int, float, bool))
IsScalar(v) == v.k \in {"str", "int", "float", "bool"}

\* the lines of _format_as_ron, and of its loops from the i-th element on
RECURSIVE FormatLines(_, _, _), FormatSub(_, _, _), FormatItems(_, _, _)
FormatItems(items, i, indent) ==
  IF i > Len(items) THEN <<>>
  ELSE (IF IsDict(items[i])
        THEN <<Join(FormatLines(<<KV("item", items[i])>>, 1, indent + 2), "\n")>>
        ELSE <<IndentStr(indent) \o "        " \o PyRepr(items[i]) \o ",">>)
       \o FormatItems(items, i + 1, indent)

FormatSub(m, i, indent) ==
  IF i > Len(m) THEN <<>>
  ELSE (IF IsScalar(m[i].val)
        THEN <<IndentStr(indent) \o "    " \o m[i].key \o ": " \o PyRepr(m[i].val) \o ",">>
        ELSE IF IsList(m[i].val)
        THEN <<IndentStr(indent) \o "    " \o m[i].key \o ": [">>
             \o FormatItems(m[i].val.e, 1, indent)
             \o <<IndentStr(indent) \o "    ],">>
        ELSE <<>>)
       \o FormatSub(m, i + 1, indent)

FormatLines(m, i, indent) ==
  IF i > Len(m) THEN <<>>
  ELSE (IF IsDict(m[i].val)
        THEN <<IndentStr(indent) \o m[i].key \o " {">>
             \o FormatSub(m[i].val.m, 1, indent)
             \o <<IndentStr(indent) \o "}">>
        ELSE <<IndentStr(indent) \o m[i].key \o ": " \o PyRepr(m[i].val)>>)
       \o FormatLines(m, i + 1, indent)

_format_as_ron(data, indent) == Join(FormatLines(data.m, 1, indent), "\n")

----------------------------------------------------------------------------
(* ASTValidator                                                            *)

\* nodes, keyed by any hashable value: nodes[key] = val
NodesHas(nodes, key) == \E i \in 1..Len(nodes) : PyEq(nodes[i].key, key)
NodesGet(nodes, key) == nodes[CHOOSE i \in 1..Len(nodes) : PyEq(nodes[i].key, key)].val
\* mutant: a key keeps the definition registered under it first
NodesSet_keeps_first(nodes, key, val) ==
  IF NodesHas(nodes, key) THEN nodes ELSE Append(nodes, KV(key, val))

NodesSet(nodes, key, val) ==
  IF NodesHas(nodes, key)
  THEN [i \in 1..Len(nodes) |-> IF PyEq(nodes[i].key, key) THEN KV(nodes[i].key, val) ELSE nodes[i]]
  ELSE Append(nodes, KV(key, val))

\* the mapping whose entries are the definitions: syntax['root'] when present
_get_syntax_definitions(syn) == IF HasKey(syn, "root") THEN Get(syn, "root") ELSE syn

\* for key, value in data.items(): register value under node_type and key.lower()
RECURSIVE ExtractFrom(_, _, _)
ExtractFrom(m, i, nodes) ==
  IF i > Len(m) THEN [val |-> nodes, exc |-> ""]
  ELSE LET key == m[i].key
           value == m[i].val
       IN IF IsDict(value) /\ HasKey(value, "node_type")
          THEN IF ~Hashable(Get(value, "node_type"))
               THEN [val |-> nodes, exc |-> "TypeError"]
               ELSE ExtractFrom(m, i + 1,
                      NodesSet(NodesSet(nodes, Get(value, "node_type"), value),
                               StrV(Lower(key)), value))
          ELSE ExtractFrom(m, i + 1, nodes)

_extract_syntax_nodes(syn) ==
  LET data == _get_syntax_definitions(syn)
  IN IF ~IsDict(data) THEN [val |-> <<>>, exc |-> "AttributeError"]
     ELSE ExtractFrom(data.m, 1, <<>>)

common_types == {"root", "heading", "paragraph", "text", "strong", "emphasis",
                 "blockquote", "list", "listItem", "codeBlock", "inlineCode",
                 "thematicBreak", "link", "image", "delete"}

\* node_type in common_types or node_type in syntax_nodes
\*   or node_type.lower() in syntax_nodes
_is_valid_node_type(node_type, nodes) ==
  IF ~Hashable(node_type) THEN [val |-> FALSE, exc |-> "TypeError"]
  ELSE IF IsStr(node_type) /\ node_type.s \in common_types THEN [val |-> TRUE, exc |-> ""]
  ELSE IF NodesHas(nodes, node_type) THEN [val |-> TRUE, exc |-> ""]
  ELSE IF ~IsStr(node_type) THEN [val |-> FALSE, exc |-> "AttributeError"]
  ELSE [val |-> NodesHas(nodes, StrV(Lower(node_type.s))), exc |-> ""]

block_types == {"heading", "paragraph", "blockquote", "list", "codeBlock", "thematicBreak"}
inline_types == {"text", "strong", "emphasis", "inlineCode", "link", "image", "delete"}

\* v in names, for a set of strings
InNames(v, names) == IsStr(v) /\ v.s \in names

_can_be_child_of(child_type, parent_type) ==
  CASE parent_type = StrV("root")       -> InNames(child_type, block_types)
    [] parent_type = StrV("paragraph")  -> InNames(child_type, inline_types)
    [] parent_type \in {StrV("strong"), StrV("emphasis")} -> InNames(child_type, inline_types)
    [] parent_type = StrV("list")       -> child_type = StrV("listItem")
    [] parent_type = StrV("listItem")   -> InNames(child_type, block_types)
    [] parent_type = StrV("blockquote") -> InNames(child_type, block_types)
    [] OTHER -> TRUE

\* mutant: a combination the table does not allow is reported
CheckParentChild_strict(node_type, parent_type) ==
  IF Truthy(parent_type) /\ ~_can_be_child_of(node_type, parent_type)
  THEN Ok(<<Diag("{node_type} cannot be a child of {parent_type}", <<node_type, parent_type>>)>>)
  ELSE Ok(<<>>)

\* if parent_type and not self._can_be_child_of(...): pass
CheckParentChild(node_type, parent_type) ==
  IF Truthy(parent_type) /\ ~_can_be_child_of(node_type, parent_type)
  THEN Ok(<<>>)
  ELSE Ok(<<>>)

FrontmatterMsg == "Frontmatter node must be first child of Document"

\* mutant: the type is compared without lower()
position_rules_case_sensitive(node_type, parent_type, position) ==
  IF ~IsStr(node_type) THEN Raise(<<>>, "AttributeError")
  ELSE IF node_type.s = "frontmatter" /\ position > 0
       THEN Ok(<<Diag(FrontmatterMsg, <<>>)>>)
       ELSE Ok(<<>>)

\* node_type.lower() == "frontmatter" and position > 0
_validate_position_rules(node_type, parent_type, position) ==
  IF ~IsStr(node_type) THEN Raise(<<>>, "AttributeError")
  ELSE IF Lower(node_type.s) = "frontmatter" /\ position > 0
       THEN Ok(<<Diag(FrontmatterMsg, <<>>)>>)
       ELSE Ok(<<>>)

HeadingDepthMsg == "Heading node missing required 'depth' attribute"
LinkUrlMsg == "Link node missing required 'url' attribute"
ImageUrlMsg == "Image node missing required 'url' attribute"
ImageAltMsg == "Image node missing required 'alt' attribute"

\* mutant: the alt check of an image is an elif of its url check
attributes_alt_elif(node_type, node) ==
  (IF node_type = StrV("heading") /\ ~HasKey(node, "depth")
   THEN <<Diag(HeadingDepthMsg, <<>>)>> ELSE <<>>)
  \o (IF node_type = StrV("link") /\ ~HasKey(node, "url")
      THEN <<Diag(LinkUrlMsg, <<>>)>> ELSE <<>>)
  \o (IF node_type = StrV("image")
      THEN (IF ~HasKey(node, "url") THEN <<Diag(ImageUrlMsg, <<>>)>>
            ELSE IF ~HasKey(node, "alt") THEN <<Diag(ImageAltMsg, <<>>)>> ELSE <<>>)
      ELSE <<>>)

_validate_attributes(node_type, node) ==
  (IF node_type = StrV("heading") /\ ~HasKey(node, "depth")
   THEN <<Diag(HeadingDepthMsg, <<>>)>> ELSE <<>>)
  \o (IF node_type = StrV("link") /\ ~HasKey(node, "url")
      THEN <<Diag(LinkUrlMsg, <<>>)>> ELSE <<>>)
  \o (IF node_type = StrV("image")
      THEN (IF ~HasKey(node, "url") THEN <<Diag(ImageUrlMsg, <<>>)>> ELSE <<>>)
           \o (IF ~HasKey(node, "alt") THEN <<Diag(ImageAltMsg, <<>>)>> ELSE <<>>)
      ELSE <<>>)

MissingTypeMsg == "Node missing 'type' field: {node}"
UnknownTypeMsg == "Unknown node type: {node_type}"

\* r1 then r2, where r2 runs only if r1 did not raise
Then(r1, r2) == IF r1.exc # "" THEN r1 ELSE [errs |-> r1.errs \o r2.errs, exc |-> r2.exc]

RECURSIVE _validate_node(_, _, _, _), ValidateChildren(_, _, _, _)
\* mutant: a node without type is reported and its children are walked
validate_node_typeless_descends(node, parent_type, position, nodes) ==
  IF ~HasKey(node, "type")
  THEN Then(Ok(<<Diag(MissingTypeMsg, <<node>>)>>),
            IF HasKey(node, "children") /\ IsList(Get(node, "children"))
            THEN ValidateChildren(Get(node, "children").e, 1, NoneV, nodes)
            ELSE Ok(<<>>))
  ELSE
    LET node_type == Get(node, "type")
        valid == _is_valid_node_type(node_type, nodes)
    IN IF valid.exc # "" THEN Raise(<<>>, valid.exc)
       ELSE IF ~valid.val THEN Ok(<<Diag(UnknownTypeMsg, <<node_type>>)>>)
       ELSE
         Then(CheckParentChild(node_type, parent_type),
         Then(_validate_position_rules(node_type, parent_type, position),
         Then(IF HasKey(node, "children") /\ IsList(Get(node, "children"))
              THEN ValidateChildren(Get(node, "children").e, 1, node_type, nodes)
              ELSE Ok(<<>>),
              Ok(_validate_attributes(node_type, node)))))

\* mutant: the required attributes are checked before the children
validate_node_attributes_first(node, parent_type, position, nodes) ==
  IF ~HasKey(node, "type") THEN Ok(<<Diag(MissingTypeMsg, <<node>>)>>)
  ELSE
    LET node_type == Get(node, "type")
        valid == _is_valid_node_type(node_type, nodes)
    IN IF valid.exc # "" THEN Raise(<<>>, valid.exc)
       ELSE IF ~valid.val THEN Ok(<<Diag(UnknownTypeMsg, <<node_type>>)>>)
       ELSE
         Then(CheckParentChild(node_type, parent_type),
         Then(_validate_position_rules(node_type, parent_type, position),
         Then(Ok(_validate_attributes(node_type, node)),
              IF HasKey(node, "children") /\ IsList(Get(node, "children"))
              THEN ValidateChildren(Get(node, "children").e, 1, node_type, nodes)
              ELSE Ok(<<>>))))

\* mutant: an unknown type is reported and the node is validated all the same
validate_node_unknown_continues(node, parent_type, position, nodes) ==
  IF ~HasKey(node, "type") THEN Ok(<<Diag(MissingTypeMsg, <<node>>)>>)
  ELSE
    LET node_type == Get(node, "type")
        valid == _is_valid_node_type(node_type, nodes)
    IN IF valid.exc # "" THEN Raise(<<>>, valid.exc)
       ELSE
         Then(Ok(IF valid.val THEN <<>> ELSE <<Diag(UnknownTypeMsg, <<node_type>>)>>),
         Then(_validate_position_rules(node_type, parent_type, position),
         Then(IF HasKey(node, "children") /\ IsList(Get(node, "children"))
              THEN ValidateChildren(Get(node, "children").e, 1, node_type, nodes)
              ELSE Ok(<<>>),
              Ok(_validate_attributes(node_type, node)))))

_validate_node(node, parent_type, position, nodes) ==
  IF ~HasKey(node, "type") THEN Ok(<<Diag(MissingTypeMsg, <<node>>)>>)
  ELSE
    LET node_type == Get(node, "type")
        valid == _is_valid_node_type(node_type, nodes)
    IN IF valid.exc # "" THEN Raise(<<>>, valid.exc)
       ELSE IF ~valid.val THEN Ok(<<Diag(UnknownTypeMsg, <<node_type>>)>>)
       ELSE
         Then(CheckParentChild(node_type, parent_type),
         Then(_validate_position_rules(node_type, parent_type, position),
         Then(IF HasKey(node, "children") /\ IsList(Get(node, "children"))
              THEN ValidateChildren(Get(node, "children").e, 1, node_type, nodes)
              ELSE Ok(<<>>),
              Ok(_validate_attributes(node_type, node)))))

\* for i, child in enumerate(node['children']), from the i-th element on
ValidateChildren(children, i, node_type, nodes) ==
  IF i > Len(children) THEN Ok(<<>>)
  ELSE Then(IF IsDict(children[i])
            THEN _validate_node(children[i], node_type, i - 1, nodes)
            ELSE Ok(<<>>),
            ValidateChildren(children, i + 1, node_type, nodes))

\* for key, value in ast_root.items(), from the i-th entry on
RECURSIVE ValidateRoots(_, _, _)
ValidateRoots(m, i, nodes) ==
  IF i > Len(m) THEN Ok(<<>>)
  ELSE Then(IF IsDict(m[i].val) /\ HasKey(m[i].val, "type")
            THEN _validate_node(m[i].val, NoneV, 0, nodes)
            ELSE IF Lower(m[i].key) = "rootnode" /\ IsDict(m[i].val)
                 THEN _validate_node(m[i].val, NoneV, 0, nodes)
                 ELSE Ok(<<>>),
            ValidateRoots(m, i + 1, nodes))

\* collect_nodes: every dict with a 'type', in pre-order, through all values
RECURSIVE collect_nodes(_), CollectSeq(_, _)
\* mutant: only the children sequences are descended into
collect_nodes_children_only(node) ==
  CASE IsDict(node) ->
         (IF HasKey(node, "type") THEN <<node>> ELSE <<>>)
         \o (IF HasKey(node, "children") /\ IsList(Get(node, "children"))
             THEN CollectSeq(Get(node, "children").e, 1) ELSE <<>>)
    [] IsList(node) -> CollectSeq(node.e, 1)
    [] OTHER -> <<>>

collect_nodes(node) ==
  CASE IsDict(node) ->
         (IF HasKey(node, "type") THEN <<node>> ELSE <<>>)
         \o CollectSeq([i \in 1..Len(node.m) |-> node.m[i].val], 1)
    [] IsList(node) -> CollectSeq(node.e, 1)
    [] OTHER -> <<>>
CollectSeq(vs, i) == IF i > Len(vs) THEN <<>> ELSE collect_nodes(vs[i]) \o CollectSeq(vs, i + 1)

_collect_ast_nodes(a) == collect_nodes(a)

CoverageDepthMsg == "Syntax defines {syntax_name} (heading depth {required_depth}) but AST has no example heading with depth {required_depth}"
CoverageTypeMsg == "Syntax defines {syntax_name} (node_type: {node_type}) but AST has no example of this node type"

\* the depth compared: a string of digits is converted to an integer
RequiredDepth(syntax_def) ==
  LET d == Get(syntax_def, "depth")
  IN IF IsStr(d) /\ IsDigit(d.s) THEN IntV(IntOf(d.s)) ELSE d

\* mutant: a heading entry is checked by its type alone, whatever its depth
CoverageOf_type_only(syntax_name, syntax_def, ast_nodes) ==
  IF ~(IsDict(syntax_def) /\ HasKey(syntax_def, "node_type")) THEN <<>>
  ELSE IF \E i \in 1..Len(ast_nodes) :
             PyEq(Get(ast_nodes[i], "type"), Get(syntax_def, "node_type"))
       THEN <<>>
       ELSE <<Diag(CoverageTypeMsg, <<StrV(syntax_name), Get(syntax_def, "node_type")>>)>>

\* the coverage check of one syntax definition
CoverageOf(syntax_name, syntax_def, ast_nodes) ==
  IF ~(IsDict(syntax_def) /\ HasKey(syntax_def, "node_type")) THEN <<>>
  ELSE
    LET node_type == Get(syntax_def, "node_type")
    IN IF node_type = StrV("heading") /\ HasKey(syntax_def, "depth")
       THEN IF \E i \in 1..Len(ast_nodes) :
                   /\ PyEq(Get(ast_nodes[i], "type"), StrV("heading"))
                   /\ PyEq(Get(ast_nodes[i], "depth"), RequiredDepth(syntax_def))
            THEN <<>>
            ELSE <<Diag(CoverageDepthMsg,
                        <<StrV(syntax_name), RequiredDepth(syntax_def)>>)>>
       ELSE IF \E i \in 1..Len(ast_nodes) : PyEq(Get(ast_nodes[i], "type"), node_type)
            THEN <<>>
            ELSE <<Diag(CoverageTypeMsg, <<StrV(syntax_name), node_type>>)>>

RECURSIVE CoverageFrom(_, _, _)
CoverageFrom(m, i, ast_nodes) ==
  IF i > Len(m) THEN <<>>
  ELSE CoverageOf(m[i].key, m[i].val, ast_nodes) \o CoverageFrom(m, i + 1, ast_nodes)

_validate_syntax_coverage(syn, a) ==
  CoverageFrom(_get_syntax_definitions(syn).m, 1, _collect_ast_nodes(a))

\* mutant: the coverage pass runs before the structural walk
validate_coverage_first(syn, a, nodes) ==
  LET ast_root == IF HasKey(a, "root") THEN Get(a, "root") ELSE a
  IN Then(Ok(_validate_syntax_coverage(syn, a)),
          IF IsDict(ast_root) THEN ValidateRoots(ast_root.m, 1, nodes) ELSE Ok(<<>>))

\* mutant: the coverage pass runs only when the structural walk found nothing
validate_coverage_if_clean(syn, a, nodes) ==
  LET ast_root == IF HasKey(a, "root") THEN Get(a, "root") ELSE a
      walk == IF IsDict(ast_root) THEN ValidateRoots(ast_root.m, 1, nodes) ELSE Ok(<<>>)
  IN IF walk.exc = "" /\ walk.errs # <<>> THEN walk
     ELSE Then(walk, Ok(_validate_syntax_coverage(syn, a)))

\* ASTValidator.validate: the structural walk, then the coverage pass
validate(syn, a, nodes) ==
  LET ast_root == IF HasKey(a, "root") THEN Get(a, "root") ELSE a
  IN Then(IF IsDict(ast_root) THEN ValidateRoots(ast_root.m, 1, nodes) ELSE Ok(<<>>),
          Ok(_validate_syntax_coverage(syn, a)))

----------------------------------------------------------------------------
(* DisplayHintsGenerator                                                   *)


gen_block_types == {"heading", "paragraph", "blockquote", "list", "listItem",
                    "codeBlock", "thematicBreak"}
gen_inline_types == {"text", "strong", "emphasis", "inlineCode", "link", "image", "delete"}

\* mutant: the block types are the validator's set, which lacks listItem
determine_style_validator_sets(node_type) ==
  IF node_type = StrV("root") THEN "container"
  ELSE IF InNames(node_type, block_types) THEN "block"
  ELSE IF InNames(node_type, inline_types) THEN "inline"
  ELSE "unknown"

_determine_style(node_type) ==
  IF node_type = StrV("root") THEN "container"
  ELSE IF InNames(node_type, gen_block_types) THEN "block"
  ELSE IF InNames(node_type, gen_inline_types) THEN "inline"
  ELSE "unknown"

Info(style, decoration, markdown_syntax) ==
  DictV(<<KV("style", StrV(style)), KV("decoration", StrV(decoration)),
          KV("markdown_syntax", StrV(markdown_syntax))>>)

\* the grave accent character, which a TLA+ string cannot hold
Backtick == "<grave>"

display_map ==
  [t \in common_types |->
     CASE t = "root"          -> Info("container", "", "")
       [] t = "heading"       -> Info("block", "#", "#")
       [] t = "paragraph"     -> Info("block", "", "")
       [] t = "text"          -> Info("inline", "", "")
       [] t = "strong"        -> Info("inline", "**", "**")
       [] t = "emphasis"      -> Info("inline", "*", "*")
       [] t = "blockquote"    -> Info("block", ">", ">")
       [] t = "list"          -> Info("block", "-", "-")
       [] t = "listItem"      -> Info("block", "-", "-")
       [] t = "codeBlock"     -> Info("block", Backtick \o Backtick \o Backtick,
                                      Backtick \o Backtick \o Backtick)
       [] t = "inlineCode"    -> Info("inline", Backtick, Backtick)
       [] t = "thematicBreak" -> Info("block", "---", "---")
       [] t = "link"          -> Info("inline", "[]()", "[text](url)")
       [] t = "image"         -> Info("inline", "![]()", "![alt](url)")
       [] t = "delete"        -> Info("inline", "~~", "~~")]

\* d.get(key, default)
GetOr(d, key, default) == IF HasKey(d, key) THEN Get(d, key) ELSE default

\* mutant: a type found nowhere is an error
get_display_info_unknown_raises(node_type, nodes) ==
  IF ~Hashable(node_type) THEN Exc("TypeError")
  ELSE IF NodesHas(nodes, node_type)
       THEN LET syntax_info == NodesGet(nodes, node_type)
            IN Val(DictV(<<KV("style", StrV(_determine_style(node_type))),
                           KV("decoration", GetOr(syntax_info, "markdown_syntax", StrV(""))),
                           KV("markdown_syntax", GetOr(syntax_info, "markdown_syntax", StrV("")))>>))
       ELSE IF InNames(node_type, common_types)
            THEN Val(display_map[node_type.s])
            ELSE Exc("KeyError")

_get_display_info(node_type, nodes) ==
  IF ~Hashable(node_type) THEN Exc("TypeError")
  ELSE IF NodesHas(nodes, node_type)
       THEN LET syntax_info == NodesGet(nodes, node_type)
            IN Val(DictV(<<KV("style", StrV(_determine_style(node_type))),
                           KV("decoration", GetOr(syntax_info, "markdown_syntax", StrV(""))),
                           KV("markdown_syntax", GetOr(syntax_info, "markdown_syntax", StrV("")))>>))
       ELSE IF InNames(node_type, common_types)
            THEN Val(display_map[node_type.s])
            ELSE Val(Info("unknown", "", ""))

\* mutant: the attributes are copied under their own names
RECURSIVE CopyAttributes_unprefixed(_, _, _)
CopyAttributes_unprefixed(m, i, h) ==
  IF i > Len(m) THEN h
  ELSE CopyAttributes_unprefixed(m, i + 1,
         IF m[i].key \notin {"type", "children"}
         THEN DictSet(h, m[i].key, m[i].val)
         ELSE h)

\* mutant: only 'type' is left out of the copy
RECURSIVE CopyAttributes_but_type(_, _, _)
CopyAttributes_but_type(m, i, h) ==
  IF i > Len(m) THEN h
  ELSE CopyAttributes_but_type(m, i + 1,
         IF m[i].key # "type" THEN DictSet(h, "attr_" \o m[i].key, m[i].val) ELSE h)

\* for key, value in data.items(): if key not in ['type', 'children']:
\*     hints[f"attr_{key}"] = value
RECURSIVE CopyAttributes(_, _, _)
CopyAttributes(m, i, h) ==
  IF i > Len(m) THEN h
  ELSE CopyAttributes(m, i + 1,
         IF m[i].key \notin {"type", "children"}
         THEN DictSet(h, "attr_" \o m[i].key, m[i].val)
         ELSE h)

RECURSIVE _generate_simple_hints(_, _), HintsOfList(_, _, _, _), HintsOfDict(_, _, _, _)
_generate_simple_hints(data, nodes) ==
  IF IsDict(data)
  THEN IF HasKey(data, "type")
       THEN LET node_type == Get(data, "type")
                display_info == _get_display_info(node_type, nodes)
            IN IF display_info.exc # "" THEN Exc(display_info.exc)
               ELSE
                 LET fixed == DictV(<<KV("type", node_type),
                                      KV("style", GetOr(display_info.val, "style", StrV("unknown"))),
                                      KV("decoration", GetOr(display_info.val, "decoration", StrV(""))),
                                      KV("markdown_syntax",
                                         GetOr(display_info.val, "markdown_syntax", StrV("")))>>)
                     h == CopyAttributes(data.m, 1, fixed)
                 IN IF HasKey(data, "children") /\ IsList(Get(data, "children"))
                    THEN LET children_hints == HintsOfList(Get(data, "children").e, 1, <<>>, nodes)
                         IN IF children_hints.exc # "" THEN children_hints
                            ELSE IF Truthy(children_hints.val)
                                 THEN Val(DictSet(h, "children", children_hints.val))
                                 ELSE Val(h)
                    ELSE Val(h)
       ELSE HintsOfDict(data.m, 1, <<>>, nodes)
  ELSE IF IsList(data) THEN HintsOfList(data.e, 1, <<>>, nodes)
  ELSE Val(data)

\* mutant: every result is put in front of the earlier ones
RECURSIVE HintsOfList_reversed(_, _, _, _)
HintsOfList_reversed(items, i, result, nodes) ==
  IF i > Len(items) THEN Val(ListV(result))
  ELSE LET processed == _generate_simple_hints(items[i], nodes)
       IN IF processed.exc # "" THEN processed
          ELSE HintsOfList_reversed(items, i + 1,
                 IF Truthy(processed.val) THEN <<processed.val>> \o result ELSE result,
                 nodes)

\* for item in data: processed = ...; if processed: result.append(processed)
HintsOfList(items, i, result, nodes) ==
  IF i > Len(items) THEN Val(ListV(result))
  ELSE LET processed == _generate_simple_hints(items[i], nodes)
       IN IF processed.exc # "" THEN processed
          ELSE HintsOfList(items, i + 1,
                 IF Truthy(processed.val) THEN Append(result, processed.val) ELSE result,
                 nodes)

\* for key, value in data.items(): processed = ...; if processed: result[key] = processed
HintsOfDict(m, i, result, nodes) ==
  IF i > Len(m) THEN Val(DictV(result))
  ELSE LET processed == _generate_simple_hints(m[i].val, nodes)
       IN IF processed.exc # "" THEN processed
          ELSE HintsOfDict(m, i + 1,
                 IF Truthy(processed.val) THEN Append(result, KV(m[i].key, processed.val))
                 ELSE result,
                 nodes)

\* the first entry whose key is rootnode/document or whose value is a typed dict
RECURSIVE FindRootNode(_, _)
FindRootNode(m, i) ==
  IF i > Len(m) THEN NoneV
  ELSE IF \/ Lower(m[i].key) \in {"rootnode", "document"}
          \/ (IsDict(m[i].val) /\ HasKey(m[i].val, "type"))
       THEN m[i].val
       ELSE FindRootNode(m, i + 1)

\* DisplayHintsGenerator.generate: None on any exception or empty result
generate(a, nodes) ==
  LET found == IF IsDict(a) THEN FindRootNode(a.m, 1) ELSE NoneV
      root_node == IF IsDict(a) /\ ~Truthy(found) THEN a ELSE found
  IN IF ~Truthy(root_node) THEN NoneV
     ELSE LET h == _generate_simple_hints(root_node, nodes)
          IN IF h.exc # "" THEN NoneV
             ELSE IF Truthy(h.val) THEN DictV(<<KV("display_hints", h.val)>>)
             ELSE NoneV

----------------------------------------------------------------------------
(* The documents the validator and the generator are run on                *)

MaxChildren == 2

Node(type, attrs) == DictV(<<KV("type", type)>> \o attrs)
WithChildren(node, children) == DictSet(node, "children", ListV(children))

Heading(d)  == Node(StrV("heading"), <<KV("depth", IntV(d))>>)
TextNode    == Node(StrV("text"), <<KV("value", StrV("x"))>>)
Url         == KV("url", StrV("u"))
Alt         == KV("alt", StrV("a"))

\* the children a root node may hold in any number up to MaxChildren
CorePool ==
  { Heading(2),
    WithChildren(Node(StrV("heading"), <<>>),
                 <<Node(StrV("image"), <<Url, Alt>>), Node(StrV("image"), <<Alt>>)>>),
    WithChildren(Node(StrV("frontmatter"), <<>>), <<Node(StrV("image"), <<>>)>>),
    WithChildren(Node(StrV("widget"), <<>>), <<Heading(2)>>),
    DictV(<<KV("children", ListV(<<Node(StrV("strong"), <<>>),
                                   Node(StrV("frontmatter"), <<>>),
                                   Node(StrV("link"), <<>>)>>))>>) }

\* what the children sequence of the root node may hold
ChildPool ==
  CorePool \cup
  { Heading(1),
    WithChildren(Node(StrV("link"), <<>>), <<Node(StrV("image"), <<>>)>>),
    WithChildren(Node(StrV("paragraph"), <<>>),
                 <<TextNode, Node(StrV("Frontmatter"), <<>>), IntV(7)>>),
    DictV(<<KV("children", ListV(<<Node(StrV("link"), <<Url>>)>>))>>),
    Node(IntV(5), <<>>),
    WithChildren(Node(StrV("gadget"), <<>>),
                 <<Node(StrV("image"), <<>>), Node(StrV("heading"), <<>>)>>) }

SeqsUpTo(S, n) == UNION {[1..k -> S] : k \in 0..n}

\* a root node with its children: none, one or two out of the whole pool, or
\* up to MaxChildren out of its core
Trees == {WithChildren(Node(StrV("root"), <<>>), cs) :
            cs \in SeqsUpTo(ChildPool, 2) \cup SeqsUpTo(CorePool, MaxChildren)}

\* what the parser returns for RootNode { type: "heading", depth: "1" }
HeadingStr == Node(StrV("heading"), <<KV("depth", StrV("1"))>>)

\* a heading whose attributes bear the names of the hint's own fields
Styled == Node(StrV("heading"), <<KV("depth", IntV(1)), KV("style", StrV("x")),
                                  KV("markdown_syntax", StrV("y")),
                                  KV("attr_depth", IntV(9))>>)

\* one childless node of every built-in type, and nodes whose type is no string
Singles ==
  {WithChildren(Node(StrV(t), <<>>), <<>>) : t \in common_types}
  \cup {WithChildren(Heading(1), <<>>),
        HeadingStr, Styled,
        Node(ListV(<<StrV("text")>>), <<>>),
        Node(IntV(5), <<>>)}

\* the document is the node itself, or holds it one level down under a key
Wrapped(n) == DictV(<<KV("RootNode", n)>>)
TreeDocs == Trees \cup {Wrapped(n) : n \in Trees}
\* two top-level nodes under an outer wrapper without type
Forest == DictV(<<KV("first", Heading(1)), KV("second", Node(StrV("link"), <<Url>>))>>)
\* an untyped mapping of scalars and a sequence of scalars
Settings == DictV(<<KV("count", IntV(0)), KV("flag", BoolV(FALSE)), KV("name", StrV("")),
                    KV("size", IntV(7)),
                    KV("items", ListV(<<IntV(0), IntV(3), StrV("")>>))>>)
\* a root node without type
TypelessRoot == DictV(<<KV("children", ListV(<<Node(StrV("link"), <<>>)>>))>>)
SmallDocs == Singles \cup {Wrapped(n) : n \in Singles}
               \cup {DictV(<<KV("doc", n)>>) : n \in Singles}
               \cup {Wrapped(TypelessRoot), Forest, Wrapped(Settings)}

Def(node_type, attrs) == DictV(<<KV("node_type", StrV(node_type))>> \o attrs)
Md(s) == KV("markdown_syntax", StrV(s))

SynH1 == DictV(<<KV("Heading1", Def("heading", <<KV("depth", IntV(1)), Md("#")>>))>>)
\* the same document as _parse_syntax_node reads it: every property a string
SynH1Str == DictV(<<KV("Heading1", Def("heading", <<KV("depth", StrV("1")), Md("#")>>))>>)
SynHeadings ==
  DictV(<<KV("Heading1", Def("heading", <<KV("depth", IntV(1)), Md("#")>>)),
          KV("Heading2", Def("heading", <<KV("depth", IntV(2)), Md("##")>>))>>)
SynMixed ==
  DictV(<<KV("Text", Def("text", <<>>)),
          KV("Frontmatter", Def("frontmatter", <<Md("---")>>)),
          KV("Image", Def("image", <<Md("![]()")>>)),
          KV("Meta", DictV(<<KV("version", IntV(1))>>)),
          KV("note", StrV("x"))>>)
SynWrapped ==
  DictV(<<KV("root",
             DictV(<<KV("Widget", Def("widget", <<Md("@")>>)),
                     KV("Link", Def("link", <<>>)),
                     KV("Five", DictV(<<KV("node_type", IntV(5))>>))>>))>>)
\* what the parser returns for RootNode { root: 5 }
SynRootScalar == DictV(<<KV("root", IntV(5))>>)
RECURSIVE DefsOf(_)
DefsOf(names) ==
  IF names = {} THEN <<>>
  ELSE LET t == CHOOSE x \in names : TRUE
       IN <<KV("T_" \o t, Def(t, <<Md("m")>>))>> \o DefsOf(names \ {t})
SynAll == DictV(DefsOf(common_types))

\* three heading entries, the first under the name heading itself
SynHeadings3 ==
  DictV(<<KV("heading", Def("heading", <<KV("depth", IntV(1)), Md("#")>>)),
          KV("Heading2", Def("heading", <<KV("depth", IntV(2)), Md("##")>>)),
          KV("Heading3", Def("heading", <<KV("depth", StrV("3")), Md("###")>>))>>)

SyntaxDocs == {SynH1, SynH1Str, SynHeadings, SynMixed, SynWrapped, SynAll, DictV(<<>>),
               SynRootScalar, SynHeadings3}
TreeSyntaxDocs == {SynHeadings, SynMixed, SynWrapped}

----------------------------------------------------------------------------
(* The validator and the generator as objects: constructed, then called    *)

generator_extract_syntax_nodes(syn) == _extract_syntax_nodes(syn)

NotCalled == [called |-> FALSE]
\* ASTValidator(...) and DisplayHintsGenerator(...): what each __init__ raised
Constructed(validator, generator) == [validator |-> validator, generator |-> generator]
Missing == [exists |-> FALSE]
\* a validator on which validate was not called yet
NoValidations == [count |-> 0, first |-> NotCalled]

\* the parts of the state a specification does not use
CoreIdle ==
  /\ syntax = DictV(<<>>) /\ ast = DictV(<<>>)
  /\ syntax_nodes = <<>> /\ errors = <<>> /\ returned = NotCalled
  /\ gen_nodes = <<>> /\ hints = NotCalled
  /\ construction = Constructed("", "")
  /\ validations = NoValidations
\* no loop of the parser is under way
NoScan == [loop |-> "none"]
ParseIdle ==
  /\ ron_text = "" /\ parse_result = NotCalled /\ serialized = NotCalled
  /\ scan = NoScan
MenuIdle ==
  /\ syntax_file = Missing /\ ast_file = Missing /\ hints_file = FALSE
  /\ pc = "select_folder" /\ menu = "none" /\ validation_errors = <<>>
  /\ auto_validated = FALSE /\ call = NotCalled

InitCore ==
  /\ \/ syntax \in TreeSyntaxDocs /\ ast \in TreeDocs
     \/ syntax \in SyntaxDocs /\ ast \in SmallDocs
  /\ syntax_nodes = _extract_syntax_nodes(syntax).val
  /\ errors = <<>>
  /\ returned = NotCalled
  /\ gen_nodes = generator_extract_syntax_nodes(syntax).val
  /\ hints = NotCalled
  /\ construction = Constructed(_extract_syntax_nodes(syntax).exc,
                                generator_extract_syntax_nodes(syntax).exc)
  /\ validations = NoValidations
  /\ ParseIdle /\ MenuIdle

\* how often validate is called on one validator
MaxCalls == 2

\* mutant: validate keeps the diagnostics of the calls before
ResetErrors_keeps(errs) == errs

\* self.errors = []
ResetErrors(errs) == <<>>

\* validator.validate(), on a validator whose constructor returned: the
\* diagnostics are appended to self.errors, and self.errors is returned
Validate ==
  LET r == validate(syntax, ast, syntax_nodes)
  IN /\ construction.validator = ""
     /\ validations.count < MaxCalls
     /\ errors' = ResetErrors(errors) \o r.errs
     /\ returned' = [called |-> TRUE, errs |-> IF r.exc = "" THEN errors' ELSE <<>>,
                     exc |-> r.exc]
     /\ validations' = [count |-> validations.count + 1,
                        first |-> IF validations.count = 0 THEN returned'
                                  ELSE validations.first]
     /\ UNCHANGED <<syntax, ast, syntax_nodes, gen_nodes, hints, construction,
                    parse_vars, menu_vars>>

\* generator.generate(), on a generator whose constructor returned
Generate ==
  /\ construction.generator = ""
  /\ hints' = [called |-> TRUE, val |-> generate(ast, gen_nodes)]
  /\ UNCHANGED <<syntax, ast, syntax_nodes, errors, returned, gen_nodes,
                 construction, validations, parse_vars, menu_vars>>

NextCore == Validate \/ Generate

SpecCore == InitCore /\ [][NextCore]_vars

----------------------------------------------------------------------------
(* The texts the parser is run on                                          *)

MaxPairs == 2

\* values closed as the notation asks
ClosedValues ==
  {"\"abc\"", "\"a\\\"b\"", "[a, b]", "[\"a\", \"b\"]", "[Heading { depth: 1 }]",
   "Some(5)", "Some(\"x\")", "Some(true)", "Some(false)", "None", "\"None\"",
   "true", "false",
   "12", "-1", "1.50", "abc", "Text { v: 1 }"}

\* an unterminated value, and what the parser makes of it when it stands
\* last in the body of RootNode { ... }
Case(v, r) == [v |-> v, r |-> r]
UnterminatedStrings ==
  {Case("\"abc", StrV("abc")), Case("\"ab, c", StrV("ab, c")),
   Case("\"a\\\"b", StrV("a\\\"b")), Case("\"ab\\", StrV("ab\\"))}
UnterminatedSequences ==
  {Case("[a, b", ListV(<<StrV("a"), StrV("b")>>)),
   Case("[\"a\", \"b", ListV(<<StrV("a"), StrV("b")>>)),
   Case("[", ListV(<<>>)),
   Case("[Heading { depth: 1 }", ListV(<<DictV(<<KV("depth", IntV(1))>>)>>)),
   Case("[Heading { depth: 1", ListV(<<DictV(<<>>)>>)),
   Case("[Heading { depth: 1 }, b", ListV(<<DictV(<<KV("depth", IntV(1))>>), StrV("b")>>))}
UnterminatedWrappers ==
  {Case("Some(5", StrV("")), Case("Some(12", IntV(1)), Case("Some(\"x\"", StrV("x")),
   Case("Some(true", StrV("tru")), Case("Some(", StrV("")), Case("Some((1)", StrV("(1"))}
UnterminatedCases == UnterminatedStrings \cup UnterminatedSequences \cup UnterminatedWrappers

\* values float() rejects, and values that are no value at all
OddValues == {"-", "1.2.3", "Some", "[Abc", ""}

FirstValues == ClosedValues \cup {c.v : c \in UnterminatedCases} \cup OddValues

\* the pairs that may follow the first one
MorePairs == {", j: 1", ", j: \"x", "\nj: [b"}

RECURSIVE Concat(_)
Concat(parts) == IF Len(parts) = 0 THEN "" ELSE parts[1] \o Concat(Tail(parts))

\* a mapping body: the pair k: v, then up to MaxPairs - 1 more pairs
BodiesOf(values) == {"k: " \o v \o Concat(more) :
                       v \in values, more \in SeqsUpTo(MorePairs, MaxPairs - 1)}

\* the body as the last thing of a RootNode
InRootNode(body) == "RootNode { " \o body \o " }"

\* the documents a body may stand in
TextsOf(bodies) ==
  UNION {{InRootNode(b),
          "RootNode { " \o b,
          "# sample\nDocument {\n  " \o b \o "\n}\n",
          "Heading1 { node_type: \"heading\", " \o b \o " }\nText {\n" \o b,
          b} : b \in bodies}

UnterminatedTexts == TextsOf(BodiesOf({c.v : c \in UnterminatedCases}))

\* a syntax document and two AST documents as the project writes them
SyntaxH1Text == "Heading1 { node_type: \"heading\", depth: 1, markdown_syntax: \"#\" }"
AstH1Text ==
  "RootNode {\n  type: \"root\",\n  children: [\n    Heading { type: \"heading\", depth: 1 }\n  ]\n}\n"
AstTextOnly ==
  "RootNode { type: \"root\", children: [Text { type: \"text\", value: \"x\" }] }"

\* documents in which every value is closed as the notation asks
WellFormedTexts ==
  UNION {{InRootNode(b), "# sample\nDocument {\n  " \o b \o "\n}\n"} :
           b \in {"k: " \o v \o more : v \in ClosedValues, more \in {"", ", j: 1"}}}
  \cup {SyntaxH1Text, AstH1Text, AstTextOnly, ""}

\* syntax documents of two or three declarations of the node type x under
\* the names A and B; the markdown syntax of a declaration is its place
MaxDecls == 3
Decl(name, md) ==
  name \o " { node_type: \"x\", markdown_syntax: \"" \o md \o "\" }"
DeclNames == {names \in SeqsUpTo({"A", "B"}, MaxDecls) : Len(names) >= 2}
DeclText(names) == Join([i \in 1..Len(names) |-> Decl(names[i], Digits[i + 1])], "\n")
DeclTexts == {DeclText(names) : names \in DeclNames}

Texts == TextsOf(BodiesOf(FirstValues))
           \cup {"", "# only a comment\n\n", "RootNode", "RootNode }{"}
           \cup {SyntaxH1Text, AstH1Text, AstTextOnly}
           \cup DeclTexts
----------------------------------------------------------------------------
(* The parser as a function of the text                                    *)

InitParse ==
  /\ ron_text \in Texts
  /\ parse_result = NotCalled
  /\ serialized = NotCalled
  /\ scan = NoScan
  /\ CoreIdle /\ MenuIdle

\* _parse_ron_content(ron_text)
Parse ==
  /\ LET r == _parse_ron_content(ron_text)
     IN parse_result' = [called |-> TRUE, val |-> r.val, exc |-> r.exc]
  /\ UNCHANGED <<ron_text, serialized, scan, core_vars, menu_vars>>

\* _format_as_ron(data), as save_ron_file calls it
Serialize(data) ==
  serialized' = [called |-> TRUE, of |-> data, text |-> _format_as_ron(data, 0)]

\* the Value the parser returned is written back
Format ==
  /\ parse_result.called /\ parse_result.exc = ""
  /\ Serialize(parse_result.val)
  /\ UNCHANGED <<ron_text, parse_result, scan, core_vars, menu_vars>>

\* the Value the parser returned is the AST of a generator with an empty
\* schema, and the hints it generates are written:
\* display_hints = generator.generate(); if display_hints: save_ron_file
FormatHints ==
  /\ parse_result.called /\ parse_result.exc = ""
  /\ Truthy(generate(parse_result.val, <<>>))
  /\ Serialize(generate(parse_result.val, <<>>))
  /\ UNCHANGED <<ron_text, parse_result, scan, core_vars, menu_vars>>

\* ASTValidator(syntax_data, ast_data) on the Value the parser returned for
\* a syntax document
Extract ==
  /\ parse_result.called /\ parse_result.exc = ""
  /\ syntax' = parse_result.val
  /\ syntax_nodes' = _extract_syntax_nodes(syntax').val
  /\ construction' = Constructed(_extract_syntax_nodes(syntax').exc, construction.generator)
  /\ UNCHANGED <<ast, errors, returned, gen_nodes, hints, validations, parse_vars,
                 menu_vars>>

NextParse == Parse \/ Format \/ FormatHints \/ Extract

SpecParse == InitParse /\ [][NextParse]_vars

----------------------------------------------------------------------------
(* The loops of the parser, one pass at a time                             *)

\* the texts between a brace and the brace that closes it (or the end)
Braced(c) ==
  {Slice(c, b + 1, ScanBraces(c, b + 1, 1) - 1) :
     b \in {k \in 0..(Len(c) - 1) : Ch(c, k) = "{"}}

\* the texts the mapping loop and the sequence loop are run on
ScanContents == Texts \cup UNION {Braced(c) : c \in Texts}

Scan(loop, content, i) ==
  [loop |-> loop, content |-> content, i |-> i, read |-> <<>>, exc |-> "", done |-> FALSE]

\* _parse_ron_structure(content) starts its loop at 0; _parse_ron_array(content, k)
\* starts its loop after the '[' at k and the whitespace behind it
InitScan ==
  /\ scan \in {Scan("mapping", c, 0) : c \in ScanContents}
          \cup UNION {{Scan("sequence", c, SkipWhile(c, k + 1, Whitespace)) :
                         k \in {j \in 0..(Len(c) - 1) : Ch(c, j) = "["}} :
                      c \in ScanContents}
  /\ ron_text = "" /\ parse_result = NotCalled /\ serialized = NotCalled
  /\ CoreIdle /\ MenuIdle

\* the loop under way after the pass s
AfterPass(s, read) ==
  [scan EXCEPT !.i = s.i, !.read = read, !.exc = s.exc, !.done = s.brk \/ s.exc # ""]

MappingRead(s) == AfterPass(s, s.read.m)
SequenceRead(s) == AfterPass(s, s.read)

\* the loop's state after the body of while i < len(content), run once; a
\* break or an exception ends the loop
MappingBody == MappingRead(MappingPass(scan.content, scan.i, DictV(scan.read)))

\* (variant: a separator is looked at and not stepped over)
SequenceBody_stalls ==
  IF Ch(scan.content, scan.i) \in Whitespace \cup {","} THEN scan
  ELSE SequenceRead(SequencePass(scan.content, scan.i, scan.read))

\* the loop's state after the body of while i < len(content) and
\* content[i] != ']', run once
SequenceBody == SequenceRead(SequencePass(scan.content, scan.i, scan.read))

MappingIteration ==
  /\ scan.loop = "mapping" /\ ~scan.done
  /\ scan.i < Len(scan.content)
  /\ scan' = MappingBody
  /\ UNCHANGED <<ron_text, parse_result, serialized, core_vars, menu_vars>>

\* the test of the mapping loop fails
MappingExit ==
  /\ scan.loop = "mapping" /\ ~scan.done
  /\ ~(scan.i < Len(scan.content))
  /\ scan' = [scan EXCEPT !.done = TRUE]
  /\ UNCHANGED <<ron_text, parse_result, serialized, core_vars, menu_vars>>

SequenceIteration ==
  /\ scan.loop = "sequence" /\ ~scan.done
  /\ scan.i < Len(scan.content) /\ Ch(scan.content, scan.i) # "]"
  /\ scan' = SequenceBody
  /\ UNCHANGED <<ron_text, parse_result, serialized, core_vars, menu_vars>>

\* the test of the sequence loop fails: the closing ']' is skipped if there
SequenceExit ==
  /\ scan.loop = "sequence" /\ ~scan.done
  /\ ~(scan.i < Len(scan.content) /\ Ch(scan.content, scan.i) # "]")
  /\ scan' = [scan EXCEPT !.done = TRUE,
                          !.i = IF scan.i < Len(scan.content) THEN scan.i + 1 ELSE scan.i]
  /\ UNCHANGED <<ron_text, parse_result, serialized, core_vars, menu_vars>>

NextScan == MappingIteration \/ MappingExit \/ SequenceIteration \/ SequenceExit

\* ENABLED <<NextScan>>_vars as a state predicate: a loop that has not ended
\* takes its exit, which sets done, or runs its body, which is a step only if
\* it changes the loop's state
CanStep ==
  /\ scan.loop # "none" /\ ~scan.done
  /\ IF scan.loop = "mapping"
     THEN scan.i < Len(scan.content) => MappingBody # scan
     ELSE (scan.i < Len(scan.content) /\ Ch(scan.content, scan.i) # "]")
             => SequenceBody # scan

\* the parser is sequential code: a loop that can make a pass makes it.  This
\* is weak fairness of NextScan, WF_vars(NextScan), with its ENABLED written
\* as CanStep.
Running == []<>(~CanStep) \/ []<><<NextScan>>_vars
SpecScan == InitScan /\ [][NextScan]_vars /\ Running

----------------------------------------------------------------------------
(* The folder menu: show_folder_actions and generate_display_hints on one  *)
(* schema folder.  The program stops at every input(); between two         *)
(* prompts the user may edit the documents of the folder.  syntax and ast  *)
(* are syntax_data and ast_data as the menu loaded them last; syntax_nodes,*)
(* errors, returned, gen_nodes and hints are the validator and the         *)
(* generator it constructed last; an exception of the validator's          *)
(* constructor is recorded in returned, as the menu does not tell it from  *)
(* one of validate.                                                        *)

File(content) == [exists |-> TRUE, content |-> content]


SyntaxFiles == {Missing, File("# to do\n"), File(SyntaxH1Text)}
AstFiles == {Missing, File(AstH1Text), File(AstTextOnly)}

\* load_ron_file: None for a missing file and for any exception
load_ron_file(file) ==
  IF ~file.exists THEN NoneV
  ELSE LET r == _parse_ron_content(file.content)
       IN IF r.exc # "" THEN NoneV ELSE r.val

\* syntax_data = load_ron_file(syntax.ron); ast_data = load_ron_file(ast.ron)
LoadFolder ==
  /\ syntax' = load_ron_file(syntax_file)
  /\ ast' = load_ron_file(ast_file)

\* if syntax_data and ast_data
BothLoaded == Truthy(syntax') /\ Truthy(ast')

\* validator = ASTValidator(syntax_data, ast_data); validator.validate():
\* the constructor's exception, if any, else what validate returns or raises
NewValidator ==
  /\ syntax_nodes' = _extract_syntax_nodes(syntax').val
  /\ errors' = IF _extract_syntax_nodes(syntax').exc # "" THEN <<>>
               ELSE validate(syntax', ast', syntax_nodes').errs
  /\ returned' = IF _extract_syntax_nodes(syntax').exc # ""
                 THEN [called |-> TRUE, errs |-> <<>>,
                       exc |-> _extract_syntax_nodes(syntax').exc]
                 ELSE [called |-> TRUE,
                       errs |-> IF validate(syntax', ast', syntax_nodes').exc = ""
                                THEN errors' ELSE <<>>,
                       exc |-> validate(syntax', ast', syntax_nodes').exc]

\* generator = DisplayHintsGenerator(syntax_data, ast_data); generator.generate()
NewGenerator ==
  /\ gen_nodes' = generator_extract_syntax_nodes(syntax').val
  /\ hints' = [called |-> TRUE, val |-> generate(ast', gen_nodes')]

\* what one call of generate_display_hints did
Call(validated, errs, generator_ran, saved, success) ==
  [called |-> TRUE, validated |-> validated, validation_errors |-> errs,
   generator_ran |-> generator_ran, saved |-> saved, success |-> success]

Init ==
  /\ syntax_file \in SyntaxFiles
  /\ ast_file \in AstFiles
  /\ hints_file = FALSE
  /\ pc = "select_folder"
  /\ menu = "none"
  /\ validation_errors = <<>>
  /\ auto_validated = FALSE
  /\ call = NotCalled
  /\ CoreIdle /\ ParseIdle

\* run: the folder is selected
SelectFolder ==
  /\ pc = "select_folder"
  /\ pc' = "show"
  /\ UNCHANGED <<syntax_file, ast_file, hints_file, menu, validation_errors,
                 auto_validated, call, core_vars, parse_vars>>

\* show_folder_actions, from the top of its loop to the prompt: the
\* auto-validation and the choice of the menu
ShowFolderActions ==
  /\ pc = "show"
  /\ LoadFolder
  /\ IF syntax_file.exists /\ ast_file.exists /\ BothLoaded
     THEN /\ NewValidator
          /\ auto_validated' = TRUE
          /\ validation_errors' = returned'.errs
          /\ IF returned'.exc # ""
             THEN pc' = "crashed" /\ UNCHANGED menu
             ELSE /\ menu' = IF validation_errors' = <<>> THEN "generate" ELSE "errors"
                  /\ pc' = "choose"
     ELSE /\ auto_validated' = FALSE
          /\ validation_errors' = <<>>
          /\ menu' = IF syntax_file.exists /\ ast_file.exists THEN "generate" ELSE "missing"
          /\ pc' = "choose"
          /\ UNCHANGED <<syntax_nodes, errors, returned>>
  /\ UNCHANGED <<syntax_file, ast_file, hints_file, call, gen_nodes, hints,
                 construction, validations, parse_vars>>

\* choice 1 of the first menu: generate_display_hints
ChooseGenerate ==
  /\ pc = "choose" /\ menu = "generate"
  /\ LoadFolder
  /\ IF ~BothLoaded
     THEN /\ call' = Call(FALSE, <<>>, FALSE, FALSE, FALSE)
          /\ pc' = "press_enter"
          /\ UNCHANGED <<hints_file, syntax_nodes, errors, returned, gen_nodes, hints>>
     ELSE /\ NewValidator
          /\ IF returned'.exc # ""
             THEN pc' = "crashed" /\ UNCHANGED <<call, hints_file, gen_nodes, hints>>
             ELSE IF returned'.errs # <<>>
             THEN /\ call' = Call(TRUE, returned'.errs, FALSE, FALSE, FALSE)
                  /\ pc' = "press_enter"
                  /\ UNCHANGED <<hints_file, gen_nodes, hints>>
             ELSE /\ NewGenerator
                  /\ pc' = "press_enter"
                  /\ IF Truthy(hints'.val)
                     THEN \E written \in BOOLEAN :
                            /\ hints_file' = (hints_file \/ written)
                            /\ call' = Call(TRUE, <<>>, TRUE, written, written)
                     ELSE /\ call' = Call(TRUE, <<>>, TRUE, FALSE, FALSE)
                          /\ UNCHANGED hints_file
  /\ UNCHANGED <<syntax_file, ast_file, menu, validation_errors, auto_validated,
                 construction, validations, parse_vars>>

\* choice 1 of the second menu: the errors of the auto-validation are listed
ChooseShowErrors ==
  /\ pc = "choose" /\ menu = "errors"
  /\ pc' = "press_enter"
  /\ UNCHANGED <<syntax_file, ast_file, hints_file, menu, validation_errors,
                 auto_validated, call, core_vars, parse_vars>>

\* show_detailed_info: loads and validates again, prints, then prompts
ChooseDetailedInfo ==
  /\ pc = "choose"
  /\ LoadFolder
  /\ IF syntax_file.exists /\ ast_file.exists /\ BothLoaded
     THEN /\ NewValidator
          /\ pc' = IF returned'.exc # "" THEN "crashed" ELSE "press_enter"
     ELSE /\ pc' = "press_enter"
          /\ UNCHANGED <<syntax_nodes, errors, returned>>
  /\ UNCHANGED <<syntax_file, ast_file, hints_file, menu, validation_errors,
                 auto_validated, call, gen_nodes, hints, construction, validations,
                 parse_vars>>

\* any other input: "Invalid choice", then the prompt to continue
InvalidChoice ==
  /\ pc = "choose"
  /\ pc' = "invalid_choice"
  /\ UNCHANGED <<syntax_file, ast_file, hints_file, menu, validation_errors,
                 auto_validated, call, core_vars, parse_vars>>

\* input("Press Enter to continue..."): back to the top of the loop
PressEnter ==
  /\ pc \in {"press_enter", "invalid_choice"}
  /\ pc' = "show"
  /\ UNCHANGED <<syntax_file, ast_file, hints_file, menu, validation_errors,
                 auto_validated, call, core_vars, parse_vars>>

\* "Go back and select another folder"
ChooseBack ==
  /\ pc = "choose"
  /\ pc' = "select_folder"
  /\ UNCHANGED <<syntax_file, ast_file, hints_file, menu, validation_errors,
                 auto_validated, call, core_vars, parse_vars>>

\* "Quit" in a menu (sys.exit) or 'q' at the folder prompt
Quit ==
  /\ pc \in {"choose", "select_folder"}
  /\ pc' = "exited"
  /\ UNCHANGED <<syntax_file, ast_file, hints_file, menu, validation_errors,
                 auto_validated, call, core_vars, parse_vars>>

\* the user saves or removes a document while the program waits for input
EditFile ==
  /\ pc \in {"select_folder", "choose", "press_enter", "invalid_choice"}
  /\ \/ syntax_file' \in SyntaxFiles \ {syntax_file} /\ UNCHANGED ast_file
     \/ ast_file' \in AstFiles \ {ast_file} /\ UNCHANGED syntax_file
  /\ UNCHANGED <<hints_file, pc, menu, validation_errors, auto_validated, call,
                 core_vars, parse_vars>>

Next ==
  \/ SelectFolder \/ ShowFolderActions \/ ChooseGenerate \/ ChooseShowErrors
  \/ ChooseDetailedInfo \/ InvalidChoice \/ PressEnter \/ ChooseBack \/ Quit
  \/ EditFile

Spec == Init /\ [][Next]_vars

----------------------------------------------------------------------------
(* Vocabulary of the properties                                            *)

\* every value inside v, v included
RECURSIVE SubValues(_)
SubValues(v) ==
  {v} \cup (CASE IsDict(v) -> UNION {SubValues(v.m[i].val) : i \in 1..Len(v.m)}
              [] IsList(v) -> UNION {SubValues(v.e[i]) : i \in 1..Len(v.e)}
              [] OTHER -> {})

\* the flat list of AST nodes, as a set: every mapping with a type
TypedNodes(v) == {n \in SubValues(v) : IsDict(n) /\ HasKey(n, "type")}

\* the walk gets past the two type checks of a node
Accepted(node, nodes) ==
  /\ HasKey(node, "type")
  /\ _is_valid_node_type(Get(node, "type"), nodes).exc = ""
  /\ _is_valid_node_type(Get(node, "type"), nodes).val

\* the nodes the structural walk visits from node on, each with its place
RECURSIVE Visits(_, _, _, _), VisitsOfChildren(_, _, _)
Visits(node, position, child, nodes) ==
  <<[node |-> node, position |-> position, child |-> child]>>
  \o (IF Accepted(node, nodes) /\ HasKey(node, "children") /\ IsList(Get(node, "children"))
      THEN VisitsOfChildren(Get(node, "children").e, 1, nodes)
      ELSE <<>>)
VisitsOfChildren(children, i, nodes) ==
  IF i > Len(children) THEN <<>>
  ELSE (IF IsDict(children[i]) THEN Visits(children[i], i - 1, TRUE, nodes) ELSE <<>>)
       \o VisitsOfChildren(children, i + 1, nodes)

\* the walk of a document that holds its root nodes one level down
RECURSIVE VisitsOfRoots(_, _, _)
VisitsOfRoots(m, i, nodes) ==
  IF i > Len(m) THEN <<>>
  ELSE (IF IsDict(m[i].val) /\ (HasKey(m[i].val, "type") \/ Lower(m[i].key) = "rootnode")
        THEN Visits(m[i].val, 0, FALSE, nodes) ELSE <<>>)
       \o VisitsOfRoots(m, i + 1, nodes)

Visited == VisitsOfRoots((IF HasKey(ast, "root") THEN Get(ast, "root") ELSE ast).m, 1,
                         syntax_nodes)

Count(seq, P(_)) == Cardinality({i \in 1..Len(seq) : P(seq[i])})
CountMsg(errs, text) == Cardinality({i \in 1..Len(errs) : errs[i].text = text})

Validated == returned.called /\ returned.exc = ""
Generated == hints.called

IsCoverage(d) == d.text \in {CoverageDepthMsg, CoverageTypeMsg}
Select(seq, P(_)) == SelectSeq(seq, P)
CoverageDiags == Select(returned.errs, IsCoverage)
IsStructural(d) == ~IsCoverage(d)

\* the node is accepted by the walk and its type is exactly t
AcceptedOfType(v, t) == Accepted(v.node, syntax_nodes) /\ Get(v.node, "type") = StrV(t)

----------------------------------------------------------------------------
(* C1: generation gate: in generate_display_hints, whenever validate       *)
(* returns a non-empty diagnostic sequence the generator is not run, no    *)
(* display_hints file is saved and the call returns False; and the folder  *)
(* menu offers "Generate Display Hints" only when both documents loaded    *)
(* and validation returned no diagnostics.  The menu also offers it when a *)
(* document exists but loads to nothing, so that validation never ran.     *)
C1_GenerationGate ==
  /\ (call.called /\ call.validation_errors # <<>>)
       => (~call.generator_ran /\ ~call.saved /\ ~call.success)
  /\ (pc = "choose" /\ menu = "generate")
       => (Truthy(syntax) /\ Truthy(ast) /\ auto_validated /\ validation_errors = <<>>)

----------------------------------------------------------------------------
(* C2: validate never fails: whatever the schema and the AST, it returns a *)
(* sequence of diagnostics and raises no exception.  The code raises when  *)
(* a visited node's type is not a string.                                  *)
C2_ValidateNeverRaises == returned.called => returned.exc = ""

----------------------------------------------------------------------------
----------------------------------------------------------------------------
\* the coverage diagnostics that name the schema entry
EntryDiags(name) ==
  Cardinality({i \in 1..Len(returned.errs) :
                 IsCoverage(returned.errs[i]) /\ returned.errs[i].args[1] = StrV(name)})

\* the flat list of AST nodes holds a node of type t
HasExample(t) == \E n \in TypedNodes(ast) : PyEq(Get(n, "type"), t)

(* C4: coverage completeness: for every schema entry with a node_type and  *)
(* no depth, validate returns a coverage diagnostic for that entry exactly *)
(* when no node of the AST has that type (one diagnostic, else none).      *)
C4_CoverageCompleteness ==
  Validated =>
    \A e \in {_get_syntax_definitions(syntax).m[i] : i \in 1..Len(_get_syntax_definitions(syntax).m)} :
      (IsDict(e.val) /\ HasKey(e.val, "node_type") /\ ~HasKey(e.val, "depth"))
        => EntryDiags(e.key) = IF HasExample(Get(e.val, "node_type")) THEN 0 ELSE 1

\* an entry with an example and an entry without one, in the same run
C4_Witness ==
  /\ Validated /\ syntax = SynMixed
  /\ HasExample(StrV("frontmatter")) /\ ~HasExample(StrV("text"))
  /\ EntryDiags("Text") = 1 /\ EntryDiags("Frontmatter") = 0

----------------------------------------------------------------------------
HasHeading(d) ==
  \E n \in TypedNodes(ast) : Get(n, "type") = StrV("heading") /\ Get(n, "depth") = IntV(d)

(* C5: heading-depth discrimination: with the entries Heading1 (depth 1)   *)
(* and Heading2 (depth 2), an AST with a depth-1 heading and no depth-2    *)
(* heading gets exactly one coverage diagnostic, naming Heading2 and depth *)
(* 2; an AST with both gets none.                                          *)
C5_HeadingDepth ==
  (Validated /\ syntax = SynHeadings) =>
    /\ (HasHeading(1) /\ ~HasHeading(2))
         => CoverageDiags = <<Diag(CoverageDepthMsg, <<StrV("Heading2"), IntV(2)>>)>>
    /\ (HasHeading(1) /\ HasHeading(2)) => CoverageDiags = <<>>

C5_Witness ==
  /\ Validated /\ syntax = SynHeadings
  /\ HasHeading(1) /\ ~HasHeading(2) /\ Len(CoverageDiags) = 1

----------------------------------------------------------------------------
IsFrontmatter(node) ==
  HasKey(node, "type") /\ IsStr(Get(node, "type")) /\ Lower(Get(node, "type").s) = "frontmatter"

MentionsFrontmatter(d) ==
  \/ d.text = FrontmatterMsg
  \/ \E i \in 1..Len(d.args) : \E v \in SubValues(d.args[i]) :
        IsStr(v) /\ Lower(v.s) = "frontmatter"

FrontmatterChildren == Select(Visited, LAMBDA v : v.child /\ IsFrontmatter(v.node))

----------------------------------------------------------------------------
(* C7: required attributes: among the nodes the walk accepts, every        *)
(* heading without depth, every link without url, every image without url  *)
(* and every image without alt adds exactly one diagnostic of its kind,    *)
(* and no other node adds any.                                             *)
C7_RequiredAttributes ==
  Validated =>
    /\ CountMsg(returned.errs, HeadingDepthMsg)
         = Count(Visited, LAMBDA v : AcceptedOfType(v, "heading") /\ ~HasKey(v.node, "depth"))
    /\ CountMsg(returned.errs, LinkUrlMsg)
         = Count(Visited, LAMBDA v : AcceptedOfType(v, "link") /\ ~HasKey(v.node, "url"))
    /\ CountMsg(returned.errs, ImageUrlMsg)
         = Count(Visited, LAMBDA v : AcceptedOfType(v, "image") /\ ~HasKey(v.node, "url"))
    /\ CountMsg(returned.errs, ImageAltMsg)
         = Count(Visited, LAMBDA v : AcceptedOfType(v, "image") /\ ~HasKey(v.node, "alt"))

\* an image lacking both, an image lacking one, a heading and a link lacking theirs
C7_Witness ==
  /\ Validated
  /\ CountMsg(returned.errs, HeadingDepthMsg) >= 1
  /\ CountMsg(returned.errs, LinkUrlMsg) >= 1
  /\ CountMsg(returned.errs, ImageUrlMsg) = 2
  /\ CountMsg(returned.errs, ImageAltMsg) = 1
  /\ \E i \in 1..Len(Visited) :
        AcceptedOfType(Visited[i], "image") /\ HasKey(Visited[i].node, "url")
                                            /\ HasKey(Visited[i].node, "alt")

----------------------------------------------------------------------------
(* C8: both AST shapes are validated: a document that is itself the root   *)
(* node gets the structural diagnostics that the same node gets when it is *)
(* held one level down in a wrapper mapping.  The code never walks a       *)
(* document that is itself the root node.                                  *)
C8_BothShapes ==
  (returned.called /\ HasKey(ast, "type")) =>
    LET wrapped == validate(syntax, Wrapped(ast), syntax_nodes)
    IN /\ returned.exc = wrapped.exc
       /\ Select(returned.errs, IsStructural) = Select(wrapped.errs, IsStructural)

----------------------------------------------------------------------------
HintNodes ==
  IF Generated
  THEN {h \in SubValues(hints.val) : IsDict(h) /\ HasKey(h, "type") /\ HasKey(h, "style")}
  ELSE {}

StyleWith(t, nodes) == Get(_get_display_info(StrV(t), nodes).val, "style")
FallbackStyle(t) == Get(display_map[t], "style")

(* C9: style classification determinism: for each of the 15 built-in type  *)
(* names the style of the hint is the one of the built-in table, whether   *)
(* the generator's SchemaModel holds an entry for the type or not.         *)
C9_StyleDeterminism ==
  /\ \A t \in common_types :
        /\ StyleWith(t, gen_nodes) = FallbackStyle(t)
        /\ StyleWith(t, <<>>) = FallbackStyle(t)
  /\ \A h \in HintNodes :
        InNames(Get(h, "type"), common_types)
          => Get(h, "style") = FallbackStyle(Get(h, "type").s)

\* a listItem hint whose metadata came from the schema entry
C9_Witness ==
  /\ Generated /\ syntax = SynAll
  /\ NodesHas(gen_nodes, StrV("listItem"))
  /\ \E h \in HintNodes :
        /\ Get(h, "type") = StrV("listItem") /\ Get(h, "style") = StrV("block")
        /\ Get(h, "decoration") = StrV("m")

----------------------------------------------------------------------------
ScenarioAst == WithChildren(Heading(1), <<>>)
InScenario == syntax \in {SynH1, SynH1Str} /\ ast = ScenarioAst

FixedFields == <<KV("type", StrV("heading")), KV("style", StrV("block")),
                 KV("decoration", StrV("#")), KV("markdown_syntax", StrV("#"))>>

(* C10: end-to-end scenario.  Schema Heading1 { node_type: "heading",      *)
(* depth: 1, markdown_syntax: "#" }, AST { type: "heading", depth: 1,      *)
(* children: [] }.  As claimed: validate returns no diagnostic and the     *)
(* hint is exactly { type, style, decoration, markdown_syntax }.           *)
C10_AsClaimed ==
  InScenario =>
    /\ returned.called => (returned.exc = "" /\ returned.errs = <<>>)
    /\ hints.called =>
         (IsDict(hints.val) /\ Get(hints.val, "display_hints") = DictV(FixedFields))

(* C10, amended: validate returns no diagnostic, and generate returns the  *)
(* hint under the key display_hints; the hint holds the four fields and    *)
(* the copied attribute attr_depth: 1, and no children key.                *)
C10_Scenario ==
  InScenario =>
    /\ returned.called => (returned.exc = "" /\ returned.errs = <<>>)
    /\ hints.called =>
         hints.val = DictV(<<KV("display_hints",
                                DictV(FixedFields \o <<KV("attr_depth", IntV(1))>>))>>)

\* the scenario, validated and generated
C10_Witness == InScenario /\ syntax = SynH1 /\ returned.called /\ hints.called

----------------------------------------------------------------------------
(* C11: generating without the gate never raises: for every schema and     *)
(* every AST, those with validation diagnostics too, constructing the      *)
(* generator and calling generate raises nothing, and generate returns a   *)
(* hint tree or None.  generate itself never raises, but the constructor   *)
(* raises when the schema's root is no mapping.                            *)
C11_GenerateNeverRaises ==
  /\ construction.generator = ""
  /\ hints.called =>
       \/ hints.val = NoneV
       \/ (IsDict(hints.val) /\ HasKey(hints.val, "display_hints"))

----------------------------------------------------------------------------
\* equal as mappings, sequences and scalars, whatever the order of the keys
RECURSIVE SameValue(_, _)
SameValue(a, b) ==
  IF IsDict(a) /\ IsDict(b)
  THEN /\ {a.m[i].key : i \in 1..Len(a.m)} = {b.m[i].key : i \in 1..Len(b.m)}
       /\ \A i \in 1..Len(a.m) : SameValue(a.m[i].val, Get(b, a.m[i].key))
  ELSE IF IsList(a) /\ IsList(b)
  THEN /\ Len(a.e) = Len(b.e)
       /\ \A i \in 1..Len(a.e) : SameValue(a.e[i], b.e[i])
  ELSE a = b

(* C12: round trip: for every Value the parser returns for a well-formed   *)
(* document, and every hint tree generated from it, parsing the text the   *)
(* serializer writes for the Value returns an equal Value, key order       *)
(* aside.  The serializer writes a notation the parser does not read back. *)
C12_RoundTrip ==
  (serialized.called /\ ron_text \in WellFormedTexts)
    => /\ _parse_ron_content(serialized.text).exc = ""
       /\ SameValue(_parse_ron_content(serialized.text).val, serialized.of)

----------------------------------------------------------------------------
\* the schema entries that declare a node type by a string
SchemaEntries ==
  LET d == _get_syntax_definitions(syntax)
  IN IF ~IsDict(d) THEN {}
     ELSE {e \in {d.m[i] : i \in 1..Len(d.m)} :
             IsDict(e.val) /\ HasKey(e.val, "node_type") /\ IsStr(Get(e.val, "node_type"))}
TypeOf(e) == Get(e.val, "node_type").s

\* a name in three letter cases
UpperChar(c) == IF IndexIn(c, LowerCase) > 0 THEN UpperCase[IndexIn(c, LowerCase)] ELSE c
RECURSIVE Upper(_)
Upper(s) == IF s = "" THEN "" ELSE UpperChar(Head(s)) \o Upper(Tail(s))
Spellings(name) == {name, Lower(name), Upper(name)}

\* no other entry declares the name, letter case aside
OnlyEntryFor(e, name) ==
  \A f \in SchemaEntries \ {e} : Lower(name) \notin {Lower(f.key), Lower(TypeOf(f))}

(* C13: schema lookup is case-insensitive over both aliases: for every     *)
(* schema entry declared under key k with node_type t, every type string   *)
(* equal to k or to t up to letter case is a known type for the validator  *)
(* and gets its decoration and markdown syntax from the entry in the       *)
(* generator.  The code registers t as written and the generator looks a   *)
(* type up as written.                                                     *)
C13_CaseInsensitiveLookup ==
  (construction.validator = "" /\ construction.generator = "") =>
    \A e \in SchemaEntries :
      \A name \in Spellings(e.key) \cup Spellings(TypeOf(e)) :
        OnlyEntryFor(e, name) =>
          /\ _is_valid_node_type(StrV(name), syntax_nodes).val
          /\ LET info == _get_display_info(StrV(name), gen_nodes).val
                 md == GetOr(e.val, "markdown_syntax", StrV(""))
             IN Get(info, "decoration") = md /\ Get(info, "markdown_syntax") = md

----------------------------------------------------------------------------
\* the place of the schema entry a coverage diagnostic names
EntryIndex(d) ==
  LET m == _get_syntax_definitions(syntax).m
  IN CHOOSE i \in 1..Len(m) : StrV(m[i].key) = d.args[1]

(* C14: diagnostic order across passes: in the sequence validate returns,  *)
(* every diagnostic of the structural walk stands before every diagnostic  *)
(* of the coverage pass, and the coverage diagnostics stand in the order   *)
(* in which the schema declares their entries.                             *)
C14_DiagnosticOrder ==
  Validated =>
    /\ returned.errs = Select(returned.errs, IsStructural) \o CoverageDiags
    /\ \A i, j \in 1..Len(CoverageDiags) :
         i < j => EntryIndex(CoverageDiags[i]) < EntryIndex(CoverageDiags[j])

\* structural diagnostics followed by the coverage diagnostics of two entries
C14_Witness ==
  /\ Validated
  /\ Len(Select(returned.errs, IsStructural)) >= 2
  /\ Len(CoverageDiags) >= 2
  /\ IsStructural(returned.errs[1]) /\ IsCoverage(returned.errs[Len(returned.errs)])

----------------------------------------------------------------------------
\* the definition the i-th declaration of the document writes
Declared(i) == Def("x", <<Md(Digits[i + 1])>>)

(* C15: last write wins: when a syntax document declares the node type x   *)
(* more than once, after extraction the lookup key x resolves to exactly   *)
(* one definition, the one declared last in the document.  In the code a   *)
(* name declared again keeps the place of its first declaration, so an     *)
(* entry declared in between wins over the later declaration.              *)
C15_LastWriteWins ==
  (parse_result.called /\ syntax = parse_result.val /\ syntax # DictV(<<>>)) =>
    \A names \in DeclNames :
      ron_text = DeclText(names) =>
        /\ Cardinality({i \in 1..Len(syntax_nodes) : syntax_nodes[i].key = StrV("x")}) = 1
        /\ NodesGet(syntax_nodes, StrV("x")) = Declared(Len(names))

----------------------------------------------------------------------------
\* the typed nodes of the AST that the structural walk never reaches
Unvisited == {n \in TypedNodes(ast) : \A i \in 1..Len(Visited) : Visited[i].node # n}

\* the node is an example of the schema entry, as the coverage pass compares
ExampleOf(n, e) ==
  IF TypeOf(e) = "heading" /\ HasKey(e.val, "depth")
  THEN Get(n, "type") = StrV("heading") /\ HasKey(n, "depth")
       /\ PyEq(Get(n, "depth"), RequiredDepth(e.val))
  ELSE Get(n, "type") = StrV(TypeOf(e))

(* C16: the coverage pass is independent of the structural walk: whenever  *)
(* validate returns, the coverage diagnostics it returns are those of the  *)
(* coverage pass run on its own, whatever the structural walk reported,    *)
(* and a node in a subtree the walk did not descend into (below a node of  *)
(* unknown type or without type) counts as an example of its entry.        *)
C16_CoverageIndependent ==
  Validated =>
    /\ CoverageDiags = _validate_syntax_coverage(syntax, ast)
    /\ \A e \in SchemaEntries : \A n \in Unvisited :
         ExampleOf(n, e) => EntryDiags(e.key) = 0

\* the walk reports the unknown type widget and stops there; the heading of
\* depth 2 below it is the only example of Heading2
C16_Witness ==
  /\ Validated /\ syntax = SynHeadings
  /\ CountMsg(returned.errs, UnknownTypeMsg) >= 1
  /\ Heading(2) \in Unvisited
  /\ \A i \in 1..Len(Visited) : Get(Visited[i].node, "type") # StrV("heading")
  /\ EntryDiags("Heading2") = 0 /\ EntryDiags("Heading1") = 1

----------------------------------------------------------------------------
\* a visited parent and a child of it that the containment table does not allow
ContainmentViolations ==
  {pair \in UNION {{<<Visited[i].node, c>> : c \in TypedNodes(Visited[i].node)} :
                   i \in 1..Len(Visited)} :
     /\ Accepted(pair[1], syntax_nodes)
     /\ HasKey(pair[1], "children") /\ IsList(Get(pair[1], "children"))
     /\ \E k \in 1..Len(Get(pair[1], "children").e) : Get(pair[1], "children").e[k] = pair[2]
     /\ ~_can_be_child_of(Get(pair[2], "type"), Get(pair[1], "type"))}

\* the messages validate can return
StructuralMsgs == {MissingTypeMsg, UnknownTypeMsg, FrontmatterMsg, HeadingDepthMsg,
                   LinkUrlMsg, ImageUrlMsg, ImageAltMsg}

\* how many diagnostics of a kind the visited nodes call for, the containment
\* table left aside
Expected(text) ==
  Count(Visited, LAMBDA v :
    CASE text = MissingTypeMsg -> ~HasKey(v.node, "type")
      [] text = UnknownTypeMsg -> HasKey(v.node, "type") /\ ~Accepted(v.node, syntax_nodes)
      [] text = FrontmatterMsg ->
           Accepted(v.node, syntax_nodes) /\ IsFrontmatter(v.node) /\ v.position > 0
      [] text = HeadingDepthMsg -> AcceptedOfType(v, "heading") /\ ~HasKey(v.node, "depth")
      [] text = LinkUrlMsg -> AcceptedOfType(v, "link") /\ ~HasKey(v.node, "url")
      [] text = ImageUrlMsg -> AcceptedOfType(v, "image") /\ ~HasKey(v.node, "url")
      [] text = ImageAltMsg -> AcceptedOfType(v, "image") /\ ~HasKey(v.node, "alt"))

(* C17: containment is advisory only: a parent and child that the          *)
(* containment table does not allow add no diagnostic and do not stop the  *)
(* walk: validate returns no diagnostic other than those of the type, the  *)
(* positional, the required-attribute and the coverage checks, and of each *)
(* of these as many as the visited nodes call for, the child of such a     *)
(* combination and the nodes below it included.                            *)
C17_ContainmentAdvisory ==
  Validated =>
    /\ \A i \in 1..Len(returned.errs) :
         IsCoverage(returned.errs[i]) \/ returned.errs[i].text \in StructuralMsgs
    /\ \A text \in StructuralMsgs : CountMsg(returned.errs, text) = Expected(text)

\* an inline link directly under root, without url, and an image below it:
\* both get their required-attribute diagnostics
C17_Witness ==
  /\ Validated
  /\ \E pair \in ContainmentViolations :
        /\ Get(pair[1], "type") = StrV("root") /\ Get(pair[2], "type") = StrV("link")
        /\ ~HasKey(pair[2], "url")
        /\ \E n \in TypedNodes(pair[2]) : Get(n, "type") = StrV("image") /\ ~HasKey(n, "url")
  /\ CountMsg(returned.errs, LinkUrlMsg) >= 1
  /\ CountMsg(returned.errs, ImageUrlMsg) >= 1

----------------------------------------------------------------------------
\* the type is a string that is no built-in type and that no key of the
\* SchemaModel equals, letter case aside
NowhereDeclared(node) ==
  /\ HasKey(node, "type") /\ IsStr(Get(node, "type"))
  /\ Get(node, "type").s \notin common_types
  /\ \A i \in 1..Len(syntax_nodes) :
        ~(IsStr(syntax_nodes[i].key)
          /\ Lower(syntax_nodes[i].key.s) = Lower(Get(node, "type").s))

\* the unknown-type diagnostics that name the type
UnknownDiags(type) ==
  Cardinality({i \in 1..Len(returned.errs) :
                 returned.errs[i] = Diag(UnknownTypeMsg, <<type>>)})

(* C18: unknown type stops the node: every visited node whose type is no   *)
(* built-in type and is not in the SchemaModel, letter case aside, adds    *)
(* exactly one unknown-type diagnostic; neither it nor anything below it   *)
(* adds a positional, required-attribute or missing-type diagnostic; and a *)
(* node of a built-in type is accepted whatever the schema declares.       *)
C18_UnknownTypeStops ==
  Validated =>
    /\ \A i \in 1..Len(Visited) :
         /\ NowhereDeclared(Visited[i].node) =>
              /\ ~Accepted(Visited[i].node, syntax_nodes)
              /\ UnknownDiags(Get(Visited[i].node, "type"))
                   = Count(Visited, LAMBDA v : /\ HasKey(v.node, "type")
                                               /\ Get(v.node, "type")
                                                    = Get(Visited[i].node, "type"))
         /\ (HasKey(Visited[i].node, "type")
             /\ InNames(Get(Visited[i].node, "type"), common_types)) =>
              /\ Accepted(Visited[i].node, syntax_nodes)
              /\ UnknownDiags(Get(Visited[i].node, "type")) = 0
    /\ \A text \in StructuralMsgs \ {UnknownTypeMsg} :
         CountMsg(returned.errs, text) = Expected(text)

\* gadget is unknown; the image and the heading below it lack their
\* attributes and are passed over
C18_Witness ==
  /\ Validated
  /\ \E i \in 1..Len(Visited) :
        /\ NowhereDeclared(Visited[i].node)
        /\ Get(Visited[i].node, "type") = StrV("gadget")
        /\ \E n \in TypedNodes(Visited[i].node) :
              Get(n, "type") = StrV("heading") /\ ~HasKey(n, "depth")
  /\ UnknownDiags(StrV("gadget")) = 1
  /\ CountMsg(returned.errs, HeadingDepthMsg) = 0
  /\ CountMsg(returned.errs, ImageUrlMsg) = 0
  /\ \E i \in 1..Len(Visited) : AcceptedOfType(Visited[i], "root")

----------------------------------------------------------------------------
\* the missing-type diagnostics that show the node
MissingTypeDiags(node) ==
  Cardinality({i \in 1..Len(returned.errs) :
                 returned.errs[i] = Diag(MissingTypeMsg, <<node>>)})

(* C19: missing type: every mapping without a type key that the structural *)
(* walk reaches as a node, as the root candidate or as an element of the   *)
(* children of a validated node, adds exactly one "Node missing 'type'     *)
(* field" diagnostic, and the walk visits nothing below it: the nodes      *)
(* below add no diagnostic of the walk.                                    *)
C19_MissingType ==
  Validated =>
    /\ \A i \in 1..Len(Visited) :
         ~HasKey(Visited[i].node, "type") =>
           MissingTypeDiags(Visited[i].node)
             = Count(Visited, LAMBDA v : v.node = Visited[i].node)
    /\ CountMsg(returned.errs, MissingTypeMsg)
         = Count(Visited, LAMBDA v : ~HasKey(v.node, "type"))
    /\ \A text \in StructuralMsgs \ {MissingTypeMsg} :
         CountMsg(returned.errs, text) = Expected(text)

\* a child without type holding a frontmatter at index 1 and a link without
\* url: one diagnostic for the child, none for what it holds
C19_Witness ==
  /\ Validated
  /\ \E i \in 1..Len(Visited) :
        /\ Visited[i].child /\ ~HasKey(Visited[i].node, "type")
        /\ \E n \in TypedNodes(Visited[i].node) :
              Get(n, "type") = StrV("link") /\ ~HasKey(n, "url")
        /\ MissingTypeDiags(Visited[i].node) = 1
  /\ CountMsg(returned.errs, MissingTypeMsg) = 1
  /\ CountMsg(returned.errs, LinkUrlMsg) = 0
  /\ CountMsg(returned.errs, FrontmatterMsg) = 0

----------------------------------------------------------------------------
\* the integer a depth stands for, written as an integer or as a string of
\* digits
HasDepthValue(v) == (IsStr(v) /\ IsDigit(v.s)) \/ IsNum(v)
DepthValue(v) == IF IsStr(v) THEN IntOf(v.s) ELSE NumOf(v)

DepthEntries == {e \in SchemaEntries : HasKey(e.val, "depth")}

\* the flat node list holds a heading of the depth, compared as integers
HeadingOfDepth(d) ==
  LET ast_nodes == _collect_ast_nodes(ast)
  IN \E i \in 1..Len(ast_nodes) :
       /\ Get(ast_nodes[i], "type") = StrV("heading")
       /\ HasKey(ast_nodes[i], "depth")
       /\ HasDepthValue(Get(ast_nodes[i], "depth"))
       /\ HasDepthValue(d)
       /\ DepthValue(Get(ast_nodes[i], "depth")) = DepthValue(d)

\* the coverage diagnostics naming the entry
EntryCoverage(name) ==
  Select(returned.errs, LAMBDA d : IsCoverage(d) /\ d.args[1] = StrV(name))

(* C20: depth-discriminated coverage: for every schema entry that declares *)
(* a depth d, the coverage check adds no diagnostic for the entry if and   *)
(* only if the flat node list holds a heading whose depth is numerically   *)
(* equal to d, a depth written as a string of digits, in the entry or on   *)
(* the AST node, counting by its integer value; otherwise it adds exactly  *)
(* one diagnostic, naming the entry and d.                                 *)
C20_DepthCoverage ==
  Validated =>
    \A e \in DepthEntries :
      LET d == Get(e.val, "depth")
      IN IF HeadingOfDepth(d)
         THEN EntryCoverage(e.key) = <<>>
         ELSE EntryCoverage(e.key)
                = <<Diag(CoverageDepthMsg, <<StrV(e.key), IntV(DepthValue(d))>>)>>

----------------------------------------------------------------------------
\* what a visited node is reported for on the way down: its type, or its place
OnTheWayDown(node, position) ==
  IF ~HasKey(node, "type") THEN <<Diag(MissingTypeMsg, <<node>>)>>
  ELSE IF ~Accepted(node, syntax_nodes) THEN <<Diag(UnknownTypeMsg, <<Get(node, "type")>>)>>
  ELSE IF IsFrontmatter(node) /\ position > 0 THEN <<Diag(FrontmatterMsg, <<>>)>>
  ELSE <<>>

\* the required attributes the node lacks
Lacks(node, type, key, text) ==
  IF Get(node, "type") = StrV(type) /\ ~HasKey(node, key) THEN <<Diag(text, <<>>)>> ELSE <<>>
MissingAttributes(node) ==
  IF ~Accepted(node, syntax_nodes) THEN <<>>
  ELSE Lacks(node, "heading", "depth", HeadingDepthMsg)
       \o Lacks(node, "link", "url", LinkUrlMsg)
       \o Lacks(node, "image", "url", ImageUrlMsg)
       \o Lacks(node, "image", "alt", ImageAltMsg)

\* the diagnostics of a node and of the nodes below it: the node's type or
\* place, then its descendants, then its missing attributes
RECURSIVE InOrder(_, _), InOrderOfChildren(_, _)
InOrder(node, position) ==
  OnTheWayDown(node, position)
  \o (IF Accepted(node, syntax_nodes) /\ HasKey(node, "children")
         /\ IsList(Get(node, "children"))
      THEN InOrderOfChildren(Get(node, "children").e, 1) ELSE <<>>)
  \o MissingAttributes(node)
InOrderOfChildren(children, i) ==
  IF i > Len(children) THEN <<>>
  ELSE (IF IsDict(children[i]) THEN InOrder(children[i], i - 1) ELSE <<>>)
       \o InOrderOfChildren(children, i + 1)

RECURSIVE InOrderOfRoots(_, _)
InOrderOfRoots(m, i) ==
  IF i > Len(m) THEN <<>>
  ELSE (IF IsDict(m[i].val) /\ (HasKey(m[i].val, "type") \/ Lower(m[i].key) = "rootnode")
        THEN InOrder(m[i].val, 0) ELSE <<>>)
       \o InOrderOfRoots(m, i + 1)

(* C21: required attributes are checked after children: the diagnostics of *)
(* the structural walk are, for every visited node, the node's positional  *)
(* diagnostic, then all the diagnostics of its descendants in child order, *)
(* then the node's missing-attribute diagnostics.                          *)
C21_AttributesAfterChildren ==
  Validated =>
    Select(returned.errs, IsStructural)
      = InOrderOfRoots((IF HasKey(ast, "root") THEN Get(ast, "root") ELSE ast).m, 1)

\* a link without url holding an image without url and alt, then a
\* frontmatter at index 1 holding such an image
C21_Witness ==
  /\ Validated
  /\ \E i \in 1..Len(Visited) :
        /\ AcceptedOfType(Visited[i], "link") /\ ~HasKey(Visited[i].node, "url")
        /\ \E n \in TypedNodes(Visited[i].node) : Get(n, "type") = StrV("image")
  /\ \E i \in 1..Len(Visited) :
        /\ AcceptedOfType(Visited[i], "frontmatter") /\ Visited[i].position = 1
        /\ \E n \in TypedNodes(Visited[i].node) : Get(n, "type") = StrV("image")
  /\ [i \in 1..Len(Select(returned.errs, IsStructural)) |->
         Select(returned.errs, IsStructural)[i].text]
       = <<ImageUrlMsg, ImageAltMsg, LinkUrlMsg, FrontmatterMsg, ImageUrlMsg, ImageAltMsg>>

----------------------------------------------------------------------------
KeysOf(d) == {d.m[i].key : i \in 1..Len(d.m)}
FixedKeys == {"type", "style", "decoration", "markdown_syntax"}

\* the node generate starts from
GenRoot ==
  LET found == IF IsDict(ast) THEN FindRootNode(ast.m, 1) ELSE NoneV
  IN IF IsDict(ast) /\ ~Truthy(found) THEN ast ELSE found

\* the typed nodes the generator makes a hint of, from v on: a typed node
\* and what its children hold, and what a sequence or an untyped mapping holds
RECURSIVE HintedFrom(_)
HintedFrom(v) ==
  CASE IsDict(v) /\ HasKey(v, "type") ->
         {v} \cup (IF HasKey(v, "children") /\ IsList(Get(v, "children"))
                   THEN UNION {HintedFrom(Get(v, "children").e[i]) :
                                 i \in 1..Len(Get(v, "children").e)}
                   ELSE {})
    [] IsDict(v) -> UNION {HintedFrom(v.m[i].val) : i \in 1..Len(v.m)}
    [] IsList(v) -> UNION {HintedFrom(v.e[i]) : i \in 1..Len(v.e)}
    [] OTHER -> {}
Hinted == IF Generated /\ hints.val # NoneV THEN HintedFrom(GenRoot) ELSE {}

\* h is framed as the hint of the node n
Framed(n, h) ==
  /\ FixedKeys \subseteq KeysOf(h)
  /\ Get(h, "type") = Get(n, "type")
  /\ Get(h, "style") = Get(_get_display_info(Get(n, "type"), gen_nodes).val, "style")
  /\ Get(h, "decoration")
       = Get(_get_display_info(Get(n, "type"), gen_nodes).val, "decoration")
  /\ Get(h, "markdown_syntax")
       = Get(_get_display_info(Get(n, "type"), gen_nodes).val, "markdown_syntax")
  /\ \A k \in KeysOf(n) \ {"type", "children"} :
        HasKey(h, "attr_" \o k) /\ Get(h, "attr_" \o k) = Get(n, k)
  /\ KeysOf(h) \subseteq FixedKeys \cup {"children"}
                          \cup {"attr_" \o k : k \in KeysOf(n) \ {"type", "children"}}

(* C22: attribute copy is framed by the prefix: the hint of every typed    *)
(* node holds the four fixed fields type, style, decoration and            *)
(* markdown_syntax and, for each key k of the node other than type and     *)
(* children, the key attr_k with the node's value unchanged; it holds no   *)
(* other key except children, and no attribute of the node, whatever its   *)
(* name, overwrites a fixed field.                                         *)
C22_AttributeFrame ==
  /\ \A n \in Hinted : \E h \in HintNodes : Framed(n, h)
  /\ \A h \in HintNodes : \E n \in Hinted : Framed(n, h)

\* a heading with the attributes style and markdown_syntax: the hint keeps
\* its own style and markdown_syntax and holds the attributes beside them
C22_Witness ==
  /\ Generated /\ syntax = SynH1 /\ ast = Wrapped(Styled)
  /\ Styled \in Hinted
  /\ \E h \in HintNodes :
        /\ Get(h, "style") = StrV("block") /\ Get(h, "attr_style") = StrV("x")
        /\ Get(h, "markdown_syntax") = StrV("#") /\ Get(h, "attr_markdown_syntax") = StrV("y")
        /\ Get(h, "attr_depth") = IntV(1) /\ Get(h, "attr_attr_depth") = IntV(9)

----------------------------------------------------------------------------
IsTyped(v) == IsDict(v) /\ HasKey(v, "type")
ChildrenOf(n) ==
  IF HasKey(n, "children") /\ IsList(Get(n, "children")) THEN Get(n, "children").e ELSE <<>>
YieldsNothing(v) ==
  LET r == _generate_simple_hints(v, gen_nodes) IN r.exc = "" /\ ~Truthy(r.val)

\* the hint h mirrors the children of the typed node n, and so on below
RECURSIVE Mirrors(_, _)
Mirrors(n, h) ==
  /\ IsDict(h) /\ HasKey(h, "type") /\ Get(h, "type") = Get(n, "type")
  /\ HasKey(h, "children")
       => IsList(Get(h, "children")) /\ Len(Get(h, "children").e) > 0
  /\ ~HasKey(h, "children")
       <=> \A i \in 1..Len(ChildrenOf(n)) : YieldsNothing(ChildrenOf(n)[i])
  /\ (\A i \in 1..Len(ChildrenOf(n)) : IsTyped(ChildrenOf(n)[i]))
       => /\ Len(ChildrenOf(h)) = Len(ChildrenOf(n))
          /\ \A i \in 1..Len(ChildrenOf(n)) : Mirrors(ChildrenOf(n)[i], ChildrenOf(h)[i])

(* C23: children mirror the source: for every typed node whose children    *)
(* are typed nodes, the children of its hint are the hints of the children *)
(* in the original order and as many (hint i has the type of child i); the *)
(* key children is absent exactly when no child yields a non-empty result, *)
(* and it never holds an empty sequence.                                   *)
C23_ChildrenMirror ==
  (Generated /\ hints.val # NoneV /\ IsTyped(GenRoot)) =>
    Mirrors(GenRoot, Get(hints.val, "display_hints"))

\* a root with a heading and a link that holds an image: two hints in that
\* order, the second with one child, the first and the image with none
C23_Witness ==
  /\ Generated /\ hints.val # NoneV /\ IsTyped(GenRoot)
  /\ Len(ChildrenOf(GenRoot)) = 2
  /\ Get(ChildrenOf(GenRoot)[1], "type") = StrV("heading")
  /\ ChildrenOf(ChildrenOf(GenRoot)[1]) = <<>>
  /\ Get(ChildrenOf(GenRoot)[2], "type") = StrV("link")
  /\ LET h == Get(hints.val, "display_hints")
     IN /\ Len(ChildrenOf(h)) = 2
        /\ Get(ChildrenOf(h)[1], "type") = StrV("heading")
        /\ ~HasKey(ChildrenOf(h)[1], "children")
        /\ Get(ChildrenOf(h)[2], "type") = StrV("link")
        /\ Len(ChildrenOf(ChildrenOf(h)[2])) = 1
        /\ Get(ChildrenOf(ChildrenOf(h)[2])[1], "type") = StrV("image")
        /\ ~HasKey(ChildrenOf(ChildrenOf(h)[2])[1], "children")

----------------------------------------------------------------------------
\* the AST is an untyped mapping whose entries are several typed nodes
IsForest(a) ==
  /\ IsDict(a) /\ ~HasKey(a, "type") /\ Len(a.m) > 1
  /\ \A i \in 1..Len(a.m) : IsTyped(a.m[i].val)

(* C24: untyped wrappers keep every entry: when the AST is a mapping       *)
(* without type whose entries are several typed nodes, generate returns a  *)
(* mapping that holds a hint for every one of those entries under the same *)
(* key, not only for the first one.                                        *)
C24_WrapperKeepsEntries ==
  (Generated /\ IsForest(ast)) =>
    /\ IsDict(hints.val) /\ IsDict(Get(hints.val, "display_hints"))
    /\ \A i \in 1..Len(ast.m) :
         /\ HasKey(Get(hints.val, "display_hints"), ast.m[i].key)
         /\ IsTyped(Get(Get(hints.val, "display_hints"), ast.m[i].key))
         /\ Get(Get(Get(hints.val, "display_hints"), ast.m[i].key), "type")
              = Get(ast.m[i].val, "type")

----------------------------------------------------------------------------
\* the type of the node is neither in the generator's SchemaModel nor built in
UnknownToGenerator(n) ==
  ~NodesHas(gen_nodes, Get(n, "type")) /\ ~InNames(Get(n, "type"), common_types)
\* the type of the node has a schema entry, which lacks markdown_syntax
BareEntry(n) ==
  NodesHas(gen_nodes, Get(n, "type"))
    /\ ~HasKey(NodesGet(gen_nodes, Get(n, "type")), "markdown_syntax")
\* every type the generator comes to is a scalar
ScalarTypes == \A n \in HintedFrom(GenRoot) : Hashable(Get(n, "type"))

----------------------------------------------------------------------------
IsPlain(v) == ~IsDict(v) /\ ~IsList(v)

(* C26: scalars pass through generation unchanged: when the generator      *)
(* processes an untyped mapping or a sequence, it drops only the entries   *)
(* and elements whose result is an empty mapping, an empty sequence or     *)
(* absent; every scalar, 0, false and the empty string too, is in the      *)
(* output unchanged under the same key or at the same position.            *)
C26_ScalarsPassThrough ==
  (Generated /\ IsDict(GenRoot) /\ ~HasKey(GenRoot, "type")) =>
    \A i \in 1..Len(GenRoot.m) :
      LET k == GenRoot.m[i].key
          v == GenRoot.m[i].val
      IN /\ (IsPlain(v) /\ v # NoneV) =>
              /\ IsDict(hints.val) /\ HasKey(Get(hints.val, "display_hints"), k)
              /\ Get(Get(hints.val, "display_hints"), k) = v
         /\ (IsList(v) /\ Len(v.e) > 0 /\ \A j \in 1..Len(v.e) : IsPlain(v.e[j]) /\ v.e[j] # NoneV) =>
              /\ IsDict(hints.val) /\ HasKey(Get(hints.val, "display_hints"), k)
              /\ Get(Get(hints.val, "display_hints"), k) = v

----------------------------------------------------------------------------
\* a value written with the optional wrapper or as None, and what it stands for
OptionalCases ==
  {Case("None", NoneV), Case("\"None\"", StrV("None")),
   Case("Some(5)", IntV(5)), Case("Some(true)", BoolV(TRUE)),
   Case("Some(false)", BoolV(FALSE)), Case("Some(\"x\")", StrV("x"))}

(* C27: optional parsing: a mapping value written None parses to the       *)
(* absent state of an optional, which is not the string "None", and        *)
(* Some(x) parses to the inner scalar: an integer when x is all digits, a  *)
(* boolean when x is true or false, else the string without its quotes.    *)
C27_OptionalParsing ==
  parse_result.called =>
    \A c \in OptionalCases :
      ron_text = InRootNode("k: " \o c.v) =>
        /\ parse_result.exc = "" /\ IsDict(parse_result.val)
        /\ HasKey(parse_result.val, "k") /\ Get(parse_result.val, "k") = c.r

----------------------------------------------------------------------------
(* C28: re-validation is repeatable: however often validate is called on   *)
(* one validator, every call returns a sequence equal to the one the first *)
(* call returned; the diagnostics of the calls before are not kept.        *)
C28_Repeatable ==
  validations.count > 0 =>
    /\ returned = validations.first
    /\ errors = IF returned.exc = "" THEN returned.errs ELSE errors

\* a second call on a validator whose first call returned diagnostics
C28_Witness ==
  /\ validations.count = 2 /\ returned.exc = ""
  /\ Len(returned.errs) > 1 /\ returned = validations.first

----------------------------------------------------------------------------
\* the schema entries of node type heading, in the order of the schema
HeadingEntries ==
  LET d == _get_syntax_definitions(syntax)
  IN IF ~IsDict(d) THEN <<>>
     ELSE SelectSeq(d.m, LAMBDA e : IsDict(e.val) /\ HasKey(e.val, "node_type")
                                     /\ Get(e.val, "node_type") = StrV("heading"))
LastHeadingSyntax ==
  GetOr(HeadingEntries[Len(HeadingEntries)].val, "markdown_syntax", StrV(""))

(* C29: heading hints ignore depth when resolving schema metadata: when    *)
(* the schema declares several entries of node type heading, the hint of   *)
(* every heading node, whatever its depth, takes decoration and            *)
(* markdown_syntax from the one definition registered under heading, the   *)
(* entry declared last.                                                    *)
C29_HeadingIgnoresDepth ==
  (Generated /\ Len(HeadingEntries) > 1) =>
    /\ \A n \in Hinted :
         Get(n, "type") = StrV("heading") =>
           \E h \in HintNodes :
             /\ Framed(n, h)
             /\ Get(h, "decoration") = LastHeadingSyntax
             /\ Get(h, "markdown_syntax") = LastHeadingSyntax
    /\ \A h \in HintNodes :
         Get(h, "type") = StrV("heading") =>
           /\ Get(h, "decoration") = LastHeadingSyntax
           /\ Get(h, "markdown_syntax") = LastHeadingSyntax

\* headings of depth 1 and of depth 2 under the entries Heading1 and
\* Heading2: both hints bear the markdown syntax of Heading2
C29_Witness ==
  /\ Generated /\ syntax = SynHeadings
  /\ Heading(1) \in Hinted /\ Heading(2) \in Hinted
  /\ \E h \in HintNodes :
        Get(h, "type") = StrV("heading") /\ Get(h, "attr_depth") = IntV(1)
          /\ Get(h, "decoration") = StrV("##")
  /\ \E h \in HintNodes :
        Get(h, "type") = StrV("heading") /\ Get(h, "attr_depth") = IntV(2)
          /\ Get(h, "decoration") = StrV("##")

----------------------------------------------------------------------------
(* C30: the parser terminates on every finite text: every pass of the      *)
(* mapping loop and of the sequence loop moves the read index forward, so  *)
(* that the loop ends, be a string, a bracket, a brace or a Some( wrapper  *)
(* unterminated, or the text without colon or closing bracket.             *)
C30_ParserTerminates ==
  /\ [][(MappingIteration \/ SequenceIteration) => scan'.i > scan.i]_vars
  /\ <>(scan.done)

\* the mapping loop has ended on a text whose value is an unterminated
\* sequence holding a node with an unterminated brace
C30_Witness ==
  /\ scan.loop = "mapping" /\ scan.done /\ scan.exc = ""
  /\ scan.content = "k: [Heading { depth: 1"
  /\ scan.i >= Len(scan.content)
  /\ DictV(scan.read) = _parse_ron_structure(scan.content).val

====
